---- MODULE Spec2Model ----
(***************************************************************************)
(* Model of the chess rules engine (src/client/engine/ChessEngine.ts) and  *)
(* of the coordinate helpers it uses (shared/utils).                       *)
(*                                                                         *)
(* A Square ('e4') is the pair of its two characters, <<"e", 4>>, with the *)
(* rank digit written as the number parseInt reads from it.  A Piece is    *)
(* the record [type, color]; an empty cell (null) is NoPiece.  A FEN text  *)
(* is the record of its six space-separated fields; the placement field is *)
(* the sequence of its '/'-separated rows, each a sequence of characters.  *)
(* Move.timestamp (Date.now()) is not modelled.                            *)
(***************************************************************************)
EXTENDS Integers, Sequences, FiniteSets, TLC

VARIABLES gameState, returned, room, rooms, playerRooms

vars == <<gameState, returned, room, rooms, playerRooms>>

\* the server's part of the state: a GameRoom, and the GameManager's rooms
\* and playerRooms
server == <<room, rooms, playerRooms>>

\* ---------------------------------------------------------------- bounds
MaxPly == 2

StartPly == 1

\* plies played in the locked position of RepetitionFen
RepeatPly == 8

\* ------------------------------------------------------------ null values
NoPiece == [type |-> "null", color |-> "null"]

NoSquare == <<>>

Undefined == "undefined"

NoMove == [from |-> NoSquare]

\* no makeMove call has returned yet
NotCalled == [called |-> FALSE]

\* the call ended by throwing: "Cannot read properties of undefined"
TypeError == [thrown |-> "TypeError"]

\* what undoMove returned: the Move it took back, or NoMove for null
Undone(move) == [undone |-> move]

\* goToMoveIndex returned (it returns no value)
Void == [void |-> TRUE]

\* the value is a Move object
IsMove(r) == "piece" \in DOMAIN r

\* -------------------------------------------------------------- ChessUtils
files == <<"a", "b", "c", "d", "e", "f", "g", "h">>

ranks == 1..8

FileSet == {files[i] : i \in 1..8}

\* files.indexOf(file): 0-based, -1 when absent
FileIndexTable == [f \in FileSet |-> (CHOOSE i \in 1..8 : files[i] = f) - 1]

fileIndexOf(f) == IF f \in FileSet THEN FileIndexTable[f] ELSE -1

Abs(x) == IF x < 0 THEN -x ELSE x

Max(x, y) == IF x > y THEN x ELSE y

Sign(x) == IF x = 0 THEN 0 ELSE IF x < 0 THEN -1 ELSE 1

squareToPosition(square) == [file |-> square[1], rank |-> square[2]]

positionToSquare(position) == <<position.file, position.rank>>

positionToIndex(position) ==
  [row |-> 8 - position.rank, col |-> fileIndexOf(position.file)]

indexToPosition(row, col) == [file |-> files[col + 1], rank |-> 8 - row]

squareToIndex(square) == positionToIndex(squareToPosition(square))

indexToSquare(row, col) == positionToSquare(indexToPosition(row, col))

isValidSquare(square) ==
  /\ Len(square) = 2
  /\ square[1] \in FileSet
  /\ square[2] \in ranks

getDistance(from, to) ==
  [dx |-> fileIndexOf(to.file) - fileIndexOf(from.file),
   dy |-> to.rank - from.rank]

RECURSIVE between(_, _, _, _, _, _)
\* the loop of getSquaresBetween, i = 1 .. steps - 1
between(fromPos, stepX, stepY, steps, i, squares) ==
  IF i >= steps THEN squares
  ELSE LET fi      == fileIndexOf(fromPos.file) + i * stepX
           newRank == fromPos.rank + i * stepY
       IN  between(fromPos, stepX, stepY, steps, i + 1,
             IF fi \in 0..7 /\ newRank \in ranks
             THEN Append(squares,
                         positionToSquare([file |-> files[fi + 1],
                                           rank |-> newRank]))
             ELSE squares)

getSquaresBetween(from, to) ==
  LET fromPos == squareToPosition(from)
      toPos   == squareToPosition(to)
      d       == getDistance(fromPos, toPos)
      steps   == Max(Abs(d.dx), Abs(d.dy))
  IN  IF steps = 0 THEN <<>>
      ELSE between(fromPos, Sign(d.dx), Sign(d.dy), steps, 1, <<>>)

Squares == {<<f, r>> : f \in FileSet, r \in ranks}

\* --------------------------------------------------------- types.ts values
PieceTypes == {"king", "queen", "rook", "bishop", "knight", "pawn"}

Other(color) == IF color = "white" THEN "black" ELSE "white"

Pc(t, c) == [type |-> t, color |-> c]

\* ------------------------------------------------------------- FEN parsing
charToPieceType(char) ==
  CASE char = "k" -> "king"
    [] char = "q" -> "queen"
    [] char = "r" -> "rook"
    [] char = "b" -> "bishop"
    [] char = "n" -> "knight"
    [] char = "p" -> "pawn"

LowerChars == {"k", "q", "r", "b", "n", "p"}

toLowerCase(char) ==
  CASE char = "K" -> "k"
    [] char = "Q" -> "q"
    [] char = "R" -> "r"
    [] char = "B" -> "b"
    [] char = "N" -> "n"
    [] char = "P" -> "p"
    [] OTHER -> char

toUpperCase(char) ==
  CASE char = "k" -> "K"
    [] char = "q" -> "Q"
    [] char = "r" -> "R"
    [] char = "b" -> "B"
    [] char = "n" -> "N"
    [] char = "p" -> "P"
    [] OTHER -> char

charToPiece(char) ==
  [type  |-> charToPieceType(toLowerCase(char)),
   color |-> IF char = toLowerCase(char) THEN "black" ELSE "white"]

pieceToChar(piece) ==
  LET char == CASE piece.type = "king"   -> "k"
                [] piece.type = "queen"  -> "q"
                [] piece.type = "rook"   -> "r"
                [] piece.type = "bishop" -> "b"
                [] piece.type = "knight" -> "n"
                [] piece.type = "pawn"   -> "p"
  IN  IF piece.color = "white" THEN toUpperCase(char) ELSE char

DigitChars == <<"1", "2", "3", "4", "5", "6", "7", "8">>

DigitSet == {DigitChars[i] : i \in 1..8}

DecimalChars == <<"0", "1", "2", "3", "4", "5", "6", "7", "8", "9">>

DecimalSet == {DecimalChars[i] : i \in 1..10}

digitValue(char) == (CHOOSE i \in 1..10 : DecimalChars[i] = char) - 1

\* what parseInt returns for a text that does not start with a number
NaN == "NaN"

\* a number and NaN are values of different kinds: they are told apart by
\* their printed form
isNaN(n) == ToString(n) = ToString(NaN)

RECURSIVE parseDigits(_, _, _)
\* the value of the longest run of decimal digits of str from position i on
parseDigits(str, i, acc) ==
  IF i > Len(str) THEN acc
  ELSE IF str[i] \notin DecimalSet THEN acc
  ELSE parseDigits(str, i + 1, acc * 10 + digitValue(str[i]))

\* parseInt(str): an optional sign and the leading decimal digits, whatever
\* follows them; NaN when there is no leading digit
parseInt(str) ==
  LET signed == str # <<>> /\ str[1] \in {"-", "+"}
      digits == IF signed THEN Tail(str) ELSE str
  IN  IF digits = <<>> THEN NaN
      ELSE IF digits[1] \notin DecimalSet THEN NaN
      ELSE IF signed /\ str[1] = "-" THEN 0 - parseDigits(digits, 1, 0)
      ELSE parseDigits(digits, 1, 0)

RECURSIVE toString(_)
\* the decimal text of a number, as string concatenation writes it
toString(n) ==
  IF isNaN(n) THEN <<"N", "a", "N">>
  ELSE IF n < 0 THEN <<"-">> \o toString(0 - n)
  ELSE IF n < 10 THEN <<DecimalChars[n + 1]>>
  ELSE Append(toString(n \div 10), DecimalChars[(n % 10) + 1])

EmptyRow == [col \in 0..7 |-> NoPiece]

RECURSIVE fenRow(_, _, _, _)
\* the inner loop of fenToBoard over the characters of one row
fenRow(chars, i, col, acc) ==
  IF i > Len(chars) THEN acc
  ELSE IF chars[i] \in DigitSet
       THEN fenRow(chars, i + 1, col + parseInt(<<chars[i]>>), acc)
       ELSE fenRow(chars, i + 1, col + 1,
                   [acc EXCEPT ![col] = charToPiece(chars[i])])

fenToBoard(fen) ==
  [row \in 0..7 |-> fenRow(fen.placement[row + 1], 1, 0, EmptyRow)]

fenToCurrentPlayer(fen) == IF fen.active = "w" THEN "white" ELSE "black"

includes(str, char) == \E i \in 1..Len(str) : str[i] = char

fenToCastlingRights(fen) ==
  [whiteKingside  |-> includes(fen.castling, "K"),
   whiteQueenside |-> includes(fen.castling, "Q"),
   blackKingside  |-> includes(fen.castling, "k"),
   blackQueenside |-> includes(fen.castling, "q")]

Dash == <<"-">>

fenToEnPassantTarget(fen) == IF fen.ep = Dash THEN NoSquare ELSE fen.ep

fenToHalfmoveClock(fen) == parseInt(fen.half)

fenToFullmoveNumber(fen) == parseInt(fen.full)

initializeGame(fen) ==
  [board           |-> fenToBoard(fen),
   currentPlayer   |-> fenToCurrentPlayer(fen),
   castlingRights  |-> fenToCastlingRights(fen),
   enPassantTarget |-> fenToEnPassantTarget(fen),
   halfmoveClock   |-> fenToHalfmoveClock(fen),
   fullmoveNumber  |-> fenToFullmoveNumber(fen),
   moves           |-> <<>>,
   isCheck         |-> FALSE,
   isCheckmate     |-> FALSE,
   isStalemate     |-> FALSE,
   isDraw          |-> FALSE,
   fen             |-> fen]

\* ------------------------------------------------------- FEN serialisation
RECURSIVE rowToFen(_, _, _, _)
\* the inner loop of calculateFEN over the columns of one row
rowToFen(cells, col, emptyCount, acc) ==
  IF col > 7
  THEN IF emptyCount > 0 THEN Append(acc, DigitChars[emptyCount]) ELSE acc
  ELSE IF cells[col] # NoPiece
       THEN rowToFen(cells, col + 1, 0,
              Append(IF emptyCount > 0
                     THEN Append(acc, DigitChars[emptyCount]) ELSE acc,
                     pieceToChar(cells[col])))
       ELSE rowToFen(cells, col + 1, emptyCount + 1, acc)

calculateFEN(gs) ==
  LET r == gs.castlingRights
      castling == (IF r.whiteKingside  THEN <<"K">> ELSE <<>>) \o
                  (IF r.whiteQueenside THEN <<"Q">> ELSE <<>>) \o
                  (IF r.blackKingside  THEN <<"k">> ELSE <<>>) \o
                  (IF r.blackQueenside THEN <<"q">> ELSE <<>>)
  IN  [placement |-> [i \in 1..8 |-> rowToFen(gs.board[i - 1], 0, 0, <<>>)],
       active    |-> IF gs.currentPlayer = "white" THEN "w" ELSE "b",
       castling  |-> IF castling = <<>> THEN Dash ELSE castling,
       ep        |-> IF gs.enPassantTarget = NoSquare THEN Dash
                     ELSE gs.enPassantTarget,
       half      |-> toString(gs.halfmoveClock),
       full      |-> toString(gs.fullmoveNumber)]

\* board[row] is undefined for a row outside 0..7, and reading [col] of it
\* throws
throws(square) == squareToIndex(square).row \notin 0..7

\* board[row][col] of an existing row is undefined for a col outside 0..7,
\* which every caller takes for null (!piece)
getPiece(gs, square) ==
  LET ix == squareToIndex(square)
  IN  IF ix.col \in 0..7 THEN gs.board[ix.row][ix.col] ELSE NoPiece

SetCell(gs, row, col, piece) ==
  [gs EXCEPT !.board = [gs.board EXCEPT ![row][col] = piece]]

\* --------------------------------------------------------- attack detector
isPathClear(gs, from, to) ==
  LET squaresBetween == getSquaresBetween(from, to)
  IN  \A i \in 1..Len(squaresBetween) :
        getPiece(gs, squaresBetween[i]) = NoPiece

canPieceAttackSquare(gs, from, to) ==
  LET piece == getPiece(gs, from)
      d     == getDistance(squareToPosition(from), squareToPosition(to))
      dx    == d.dx
      dy    == d.dy
  IN  IF piece = NoPiece THEN FALSE
      ELSE CASE piece.type = "pawn" ->
                  LET direction == IF piece.color = "white" THEN 1 ELSE -1
                  IN  dy = direction /\ Abs(dx) = 1
             [] piece.type = "rook" ->
                  (dx = 0 \/ dy = 0) /\ isPathClear(gs, from, to)
             [] piece.type = "bishop" ->
                  Abs(dx) = Abs(dy) /\ isPathClear(gs, from, to)
             [] piece.type = "queen" ->
                  (dx = 0 \/ dy = 0 \/ Abs(dx) = Abs(dy))
                    /\ isPathClear(gs, from, to)
             [] piece.type = "knight" ->
                  \/ Abs(dx) = 2 /\ Abs(dy) = 1
                  \/ Abs(dx) = 1 /\ Abs(dy) = 2
             [] piece.type = "king" ->
                  Abs(dx) <= 1 /\ Abs(dy) <= 1
             [] OTHER -> FALSE

isSquareAttacked(gs, square, byColor) ==
  \E row \in 0..7 : \E col \in 0..7 :
     /\ gs.board[row][col] # NoPiece
     /\ gs.board[row][col].color = byColor
     /\ canPieceAttackSquare(gs, indexToSquare(row, col), square)

\* first king of the colour in row-major order, or NoSquare
findKing(gs, color) ==
  LET isKing(k) == gs.board[k \div 8][k % 8] = Pc("king", color)
  IN  IF \E k \in 0..63 : isKing(k)
      THEN LET k == CHOOSE j \in 0..63 :
                      isKing(j) /\ \A m \in 0..(j - 1) : ~isKing(m)
           IN  indexToSquare(k \div 8, k % 8)
      ELSE NoSquare

isInCheck(gs, color) ==
  LET kingSquare == findKing(gs, color)
  IN  IF kingSquare = NoSquare THEN FALSE
      ELSE isSquareAttacked(gs, kingSquare, Other(color))

\* ------------------------------------------------ pseudo-legal generation
Mv(to, promotion) == [to |-> to, promotion |-> promotion]

PromotionTypes == <<"queen", "rook", "bishop", "knight">>

Promotions(to) == [i \in 1..4 |-> Mv(to, PromotionTypes[i])]

\* getPawnMoves offering the double step from every rank
getPawnMovesAnyRank(gs, square) ==
  LET piece         == getPiece(gs, square)
      position      == squareToPosition(square)
      direction     == IF piece.color = "white" THEN 1 ELSE -1
      startRank     == IF piece.color = "white" THEN 2 ELSE 7
      promotionRank == IF piece.color = "white" THEN 8 ELSE 1
      oneSquareForward ==
        positionToSquare([file |-> position.file,
                          rank |-> position.rank + direction])
      twoSquaresForward ==
        positionToSquare([file |-> position.file,
                          rank |-> position.rank + 2 * direction])
      forward ==
        IF isValidSquare(oneSquareForward)
           /\ getPiece(gs, oneSquareForward) = NoPiece
        THEN (IF position.rank + direction = promotionRank
              THEN Promotions(oneSquareForward)
              ELSE <<Mv(oneSquareForward, Undefined)>>)
             \o (IF isValidSquare(twoSquaresForward)
                    /\ getPiece(gs, twoSquaresForward) = NoPiece
                 THEN <<Mv(twoSquaresForward, Undefined)>>
                 ELSE <<>>)
        ELSE <<>>
      fileIndex == fileIndexOf(position.file)
      capture(fileOffset) ==
        LET targetFileIndex == fileIndex + fileOffset
        IN  IF targetFileIndex >= 0 /\ targetFileIndex < 8
            THEN LET targetSquare ==
                       positionToSquare([file |-> files[targetFileIndex + 1],
                                         rank |-> position.rank + direction])
                 IN  IF isValidSquare(targetSquare)
                     THEN LET targetPiece == getPiece(gs, targetSquare)
                          IN  (IF targetPiece # NoPiece
                                  /\ targetPiece.color # piece.color
                               THEN IF position.rank + direction = promotionRank
                                    THEN Promotions(targetSquare)
                                    ELSE <<Mv(targetSquare, Undefined)>>
                               ELSE <<>>)
                              \o (IF targetSquare = gs.enPassantTarget
                                  THEN <<Mv(targetSquare, Undefined)>>
                                  ELSE <<>>)
                     ELSE <<>>
            ELSE <<>>
  IN  forward \o capture(-1) \o capture(1)

getPawnMoves(gs, square) ==
  LET piece         == getPiece(gs, square)
      position      == squareToPosition(square)
      direction     == IF piece.color = "white" THEN 1 ELSE -1
      startRank     == IF piece.color = "white" THEN 2 ELSE 7
      promotionRank == IF piece.color = "white" THEN 8 ELSE 1
      oneSquareForward ==
        positionToSquare([file |-> position.file,
                          rank |-> position.rank + direction])
      twoSquaresForward ==
        positionToSquare([file |-> position.file,
                          rank |-> position.rank + 2 * direction])
      forward ==
        IF isValidSquare(oneSquareForward)
           /\ getPiece(gs, oneSquareForward) = NoPiece
        THEN (IF position.rank + direction = promotionRank
              THEN Promotions(oneSquareForward)
              ELSE <<Mv(oneSquareForward, Undefined)>>)
             \o (IF position.rank = startRank
                    /\ getPiece(gs, twoSquaresForward) = NoPiece
                 THEN <<Mv(twoSquaresForward, Undefined)>>
                 ELSE <<>>)
        ELSE <<>>
      fileIndex == fileIndexOf(position.file)
      capture(fileOffset) ==
        LET targetFileIndex == fileIndex + fileOffset
        IN  IF targetFileIndex >= 0 /\ targetFileIndex < 8
            THEN LET targetSquare ==
                       positionToSquare([file |-> files[targetFileIndex + 1],
                                         rank |-> position.rank + direction])
                 IN  IF isValidSquare(targetSquare)
                     THEN LET targetPiece == getPiece(gs, targetSquare)
                          IN  (IF targetPiece # NoPiece
                                  /\ targetPiece.color # piece.color
                               THEN IF position.rank + direction = promotionRank
                                    THEN Promotions(targetSquare)
                                    ELSE <<Mv(targetSquare, Undefined)>>
                               ELSE <<>>)
                              \o (IF targetSquare = gs.enPassantTarget
                                  THEN <<Mv(targetSquare, Undefined)>>
                                  ELSE <<>>)
                     ELSE <<>>
            ELSE <<>>
  IN  forward \o capture(-1) \o capture(1)

RECURSIVE slide(_, _, _, _, _, _, _)
\* the inner loop of getSlidingMoves along one direction, i = 1 .. 7
slide(gs, piece, row, col, delta, i, moves) ==
  LET newRow == row + i * delta[1]
      newCol == col + i * delta[2]
  IN  IF i >= 8 \/ newRow < 0 \/ newRow >= 8 \/ newCol < 0 \/ newCol >= 8
      THEN moves
      ELSE LET targetSquare == indexToSquare(newRow, newCol)
               targetPiece  == getPiece(gs, targetSquare)
           IN  IF targetPiece = NoPiece
               THEN slide(gs, piece, row, col, delta, i + 1,
                          Append(moves, Mv(targetSquare, Undefined)))
               ELSE IF targetPiece.color # piece.color
                    THEN Append(moves, Mv(targetSquare, Undefined))
                    ELSE moves

RECURSIVE slideAll(_, _, _, _, _, _)
slideAll(gs, piece, row, col, directions, k) ==
  IF k > Len(directions) THEN <<>>
  ELSE slide(gs, piece, row, col, directions[k], 1, <<>>)
         \o slideAll(gs, piece, row, col, directions, k + 1)

getSlidingMoves(gs, square, directions) ==
  LET ix == squareToIndex(square)
  IN  slideAll(gs, getPiece(gs, square), ix.row, ix.col, directions, 1)

RookDirections == <<<<0, 1>>, <<0, -1>>, <<1, 0>>, <<-1, 0>>>>

BishopDirections == <<<<1, 1>>, <<1, -1>>, <<-1, 1>>, <<-1, -1>>>>

getRookMoves(gs, square) == getSlidingMoves(gs, square, RookDirections)

getBishopMoves(gs, square) == getSlidingMoves(gs, square, BishopDirections)

getQueenMoves(gs, square) ==
  getSlidingMoves(gs, square, RookDirections \o BishopDirections)

RECURSIVE stepAll(_, _, _, _, _, _)
\* the offset loop shared by getKnightMoves and getKingMoves
stepAll(gs, piece, row, col, offsets, k) ==
  IF k > Len(offsets) THEN <<>>
  ELSE LET newRow == row + offsets[k][1]
           newCol == col + offsets[k][2]
           here   ==
             IF newRow >= 0 /\ newRow < 8 /\ newCol >= 0 /\ newCol < 8
             THEN LET targetSquare == indexToSquare(newRow, newCol)
                      targetPiece  == getPiece(gs, targetSquare)
                  IN  IF targetPiece = NoPiece
                         \/ targetPiece.color # piece.color
                      THEN <<Mv(targetSquare, Undefined)>>
                      ELSE <<>>
             ELSE <<>>
       IN  here \o stepAll(gs, piece, row, col, offsets, k + 1)

knightMoves ==
  <<<<-2, -1>>, <<-2, 1>>, <<-1, -2>>, <<-1, 2>>,
    <<1, -2>>, <<1, 2>>, <<2, -1>>, <<2, 1>>>>

kingMoves ==
  <<<<-1, -1>>, <<-1, 0>>, <<-1, 1>>, <<0, -1>>, <<0, 1>>,
    <<1, -1>>, <<1, 0>>, <<1, 1>>>>

getKnightMoves(gs, square) ==
  LET ix == squareToIndex(square)
  IN  stepAll(gs, getPiece(gs, square), ix.row, ix.col, knightMoves, 1)

\* canCastleKingside without the test that f and g are not attacked
canCastleKingsideUnguarded(gs, color) ==
  LET rights    == gs.castlingRights
      canCastle == IF color = "white" THEN rights.whiteKingside
                   ELSE rights.blackKingside
      rank      == IF color = "white" THEN 1 ELSE 8
      squares   == <<<<"f", rank>>, <<"g", rank>>>>
  IN  /\ canCastle
      /\ ~ \E i \in 1..2 : getPiece(gs, squares[i]) # NoPiece

canCastleKingside(gs, color) ==
  LET rights    == gs.castlingRights
      canCastle == IF color = "white" THEN rights.whiteKingside
                   ELSE rights.blackKingside
      rank      == IF color = "white" THEN 1 ELSE 8
      squares   == <<<<"f", rank>>, <<"g", rank>>>>
  IN  /\ canCastle
      /\ ~ \E i \in 1..2 : getPiece(gs, squares[i]) # NoPiece
      /\ ~ \E i \in 1..2 : isSquareAttacked(gs, squares[i], Other(color))

canCastleQueenside(gs, color) ==
  LET rights    == gs.castlingRights
      canCastle == IF color = "white" THEN rights.whiteQueenside
                   ELSE rights.blackQueenside
      rank      == IF color = "white" THEN 1 ELSE 8
      squares   == <<<<"b", rank>>, <<"c", rank>>, <<"d", rank>>>>
      checkSquares == <<<<"c", rank>>, <<"d", rank>>>>
  IN  /\ canCastle
      /\ ~ \E i \in 1..3 : getPiece(gs, squares[i]) # NoPiece
      /\ ~ \E i \in 1..2 :
             isSquareAttacked(gs, checkSquares[i], Other(color))

getKingMoves(gs, square) ==
  LET piece == getPiece(gs, square)
      ix    == squareToIndex(square)
      rank  == IF piece.color = "white" THEN 1 ELSE 8
  IN  stepAll(gs, piece, ix.row, ix.col, kingMoves, 1)
      \o (IF ~isInCheck(gs, piece.color)
          THEN (IF canCastleKingside(gs, piece.color)
                THEN <<Mv(<<"g", rank>>, Undefined)>> ELSE <<>>)
               \o (IF canCastleQueenside(gs, piece.color)
                   THEN <<Mv(<<"c", rank>>, Undefined)>> ELSE <<>>)
          ELSE <<>>)

getPseudoLegalMoves(gs, square) ==
  LET piece == getPiece(gs, square)
  IN  IF piece = NoPiece THEN <<>>
      ELSE CASE piece.type = "pawn"   -> getPawnMoves(gs, square)
             [] piece.type = "rook"   -> getRookMoves(gs, square)
             [] piece.type = "bishop" -> getBishopMoves(gs, square)
             [] piece.type = "queen"  -> getQueenMoves(gs, square)
             [] piece.type = "knight" -> getKnightMoves(gs, square)
             [] piece.type = "king"   -> getKingMoves(gs, square)
             [] OTHER -> <<>>

\* --------------------------------------------------------- legality filter
\* wouldBeInCheck testing the king before the temporary move is made
wouldBeInCheckUnmoved(gs, from, to, promotion) ==
  IF getPiece(gs, from) = NoPiece
  THEN [inCheck |-> TRUE, gs |-> gs]
  ELSE [inCheck |-> isInCheck(gs, getPiece(gs, from).color), gs |-> gs]

\* wouldBeInCheck putting back the two squares of the move but not the
\* pawn taken en passant
wouldBeInCheckNoPawnBack(gs, from, to, promotion) ==
  LET originalPiece  == getPiece(gs, from)
      originalTarget == getPiece(gs, to)
      f  == squareToIndex(from)
      t  == squareToIndex(to)
      g1 == SetCell(SetCell(gs, f.row, f.col, NoPiece), t.row, t.col,
                    IF promotion # Undefined
                    THEN Pc(promotion, originalPiece.color)
                    ELSE originalPiece)
      isEnPassant == originalPiece.type = "pawn" /\ to = gs.enPassantTarget
      captureRow  == IF originalPiece.color = "white"
                     THEN t.row + 1 ELSE t.row - 1
      g2 == IF isEnPassant THEN SetCell(g1, captureRow, t.col, NoPiece)
            ELSE g1
  IN  IF originalPiece = NoPiece
      THEN [inCheck |-> TRUE, gs |-> gs]
      ELSE [inCheck |-> isInCheck(g2, originalPiece.color),
            gs      |-> SetCell(SetCell(g2, f.row, f.col, originalPiece),
                                t.row, t.col, originalTarget)]

\* The temporary move is made on the board of gs and taken back; the
\* result carries the board as the call leaves it.
wouldBeInCheck(gs, from, to, promotion) ==
  LET originalPiece     == getPiece(gs, from)
      originalTarget    == getPiece(gs, to)
      originalEnPassant == gs.enPassantTarget
      f  == squareToIndex(from)
      t  == squareToIndex(to)
      g1 == SetCell(SetCell(gs, f.row, f.col, NoPiece), t.row, t.col,
                    IF promotion # Undefined
                    THEN Pc(promotion, originalPiece.color)
                    ELSE originalPiece)
      isEnPassant == originalPiece.type = "pawn" /\ to = originalEnPassant
      captureRow  == IF originalPiece.color = "white"
                     THEN t.row + 1 ELSE t.row - 1
      enPassantCaptured ==
        IF isEnPassant THEN g1.board[captureRow][t.col] ELSE NoPiece
      g2 == IF isEnPassant THEN SetCell(g1, captureRow, t.col, NoPiece)
            ELSE g1
      inCheck == isInCheck(g2, originalPiece.color)
      g3 == SetCell(SetCell(g2, f.row, f.col, originalPiece),
                    t.row, t.col, originalTarget)
      g4 == IF enPassantCaptured # NoPiece
            THEN SetCell(g3, captureRow, t.col, enPassantCaptured)
            ELSE g3
  IN  IF originalPiece = NoPiece
      THEN [inCheck |-> TRUE, gs |-> gs]
      ELSE [inCheck |-> inCheck, gs |-> g4]

\* the moves kept so far, with one more
Keep(keep, move, rest) ==
  [moves |-> IF keep THEN <<move>> \o rest.moves ELSE rest.moves,
   gs    |-> rest.gs]

RECURSIVE filterLegal(_, _, _, _)

filterRest(w, square, pseudoLegalMoves, i) ==
  Keep(~w.inCheck, pseudoLegalMoves[i],
       filterLegal(w.gs, square, pseudoLegalMoves, i + 1))

\* pseudoLegalMoves.filter(move => !wouldBeInCheck(...)), in order
filterLegal(gs, square, pseudoLegalMoves, i) ==
  IF i > Len(pseudoLegalMoves) THEN [moves |-> <<>>, gs |-> gs]
  ELSE filterRest(wouldBeInCheck(gs, square, pseudoLegalMoves[i].to,
                                 pseudoLegalMoves[i].promotion),
                  square, pseudoLegalMoves, i)

getLegalMoves(gs, square) ==
  LET piece == getPiece(gs, square)
  IN  IF piece = NoPiece \/ piece.color # gs.currentPlayer
      THEN [moves |-> <<>>, gs |-> gs]
      ELSE filterLegal(gs, square, getPseudoLegalMoves(gs, square), 1)

\* some comparing the destination only
someTo(legalMoves, to, promotion) ==
  [valid |-> \E i \in 1..Len(legalMoves.moves) : legalMoves.moves[i].to = to,
   gs    |-> legalMoves.gs]

\* legalMoves.some(move => move.to === to && move.promotion === promotion)
some(legalMoves, to, promotion) ==
  [valid |-> \E i \in 1..Len(legalMoves.moves) :
                /\ legalMoves.moves[i].to = to
                /\ legalMoves.moves[i].promotion = promotion,
   gs    |-> legalMoves.gs]

isValidMove(gs, from, to, promotion) ==
  LET piece == getPiece(gs, from)
  IN  IF piece = NoPiece THEN [valid |-> FALSE, gs |-> gs]
      ELSE IF piece.color # gs.currentPlayer
           THEN [valid |-> FALSE, gs |-> gs]
           ELSE some(getLegalMoves(gs, from), to, promotion)

\* the row/col loops of hasLegalMoves and getAllLegalMoves visit the cells
\* in the order k = 8 * row + col; nextCell is the first cell from k on that
\* passes their test (piece && piece.color === color), 64 when none does
nextCell(gs, color, k) ==
  LET own == {j \in k..63 : /\ gs.board[j \div 8][j % 8] # NoPiece
                            /\ gs.board[j \div 8][j % 8].color = color}
  IN  IF own = {} THEN 64
      ELSE CHOOSE j \in own : \A m \in own : j <= m

RECURSIVE hasLegalMovesFrom(_, _, _)

hasLegalMovesNext(l, color, k) ==
  IF Len(l.moves) > 0
  THEN [result |-> TRUE, gs |-> l.gs]
  ELSE hasLegalMovesFrom(l.gs, color, nextCell(l.gs, color, k + 1))

\* the body of the loops of hasLegalMoves at cell k
hasLegalMovesFrom(gs, color, k) ==
  IF k > 63 THEN [result |-> FALSE, gs |-> gs]
  ELSE hasLegalMovesNext(
         getLegalMoves(gs, indexToSquare(k \div 8, k % 8)), color, k)

hasLegalMoves(gs, color) ==
  hasLegalMovesFrom(gs, color, nextCell(gs, color, 0))

\* legalMoves.forEach(move => moves.push({ from, ...move }))
pushAll(from, l, rest) ==
  [moves |-> [i \in 1..Len(l.moves) |->
                [from      |-> from,
                 to        |-> l.moves[i].to,
                 promotion |-> l.moves[i].promotion]] \o rest.moves,
   gs    |-> rest.gs]

RECURSIVE allLegalMovesFrom(_, _)

allLegalMovesNext(l, k) ==
  pushAll(indexToSquare(k \div 8, k % 8), l,
          allLegalMovesFrom(l.gs, nextCell(l.gs, l.gs.currentPlayer, k + 1)))

\* the body of the loops of getAllLegalMoves at cell k
allLegalMovesFrom(gs, k) ==
  IF k > 63 THEN [moves |-> <<>>, gs |-> gs]
  ELSE allLegalMovesNext(
         getLegalMoves(gs, indexToSquare(k \div 8, k % 8)), k)

getAllLegalMoves(gs) ==
  allLegalMovesFrom(gs, nextCell(gs, gs.currentPlayer, 0))

\* ---------------------------------------------------------- move execution
\* executeCastling leaving the king on its origin square as well
executeCastlingKingStays(gs, move) ==
  LET f  == squareToIndex(move.from)
      t  == squareToIndex(move.to)
      g1 == SetCell(gs, t.row, t.col, move.piece)
      kingside == t.col > f.col
      g2 == IF kingside
            THEN SetCell(SetCell(g1, t.row, 7, NoPiece), t.row, 5,
                         Pc("rook", move.piece.color))
            ELSE SetCell(SetCell(g1, t.row, 0, NoPiece), t.row, 3,
                         Pc("rook", move.piece.color))
      r  == gs.castlingRights
  IN  [gs   |-> [g2 EXCEPT !.castlingRights =
                   IF move.piece.color = "white"
                   THEN [r EXCEPT !.whiteKingside = FALSE,
                                  !.whiteQueenside = FALSE]
                   ELSE [r EXCEPT !.blackKingside = FALSE,
                                  !.blackQueenside = FALSE]],
       move |-> [move EXCEPT !.castling =
                   IF kingside THEN "kingside" ELSE "queenside"]]

executeCastling(gs, move) ==
  LET f  == squareToIndex(move.from)
      t  == squareToIndex(move.to)
      g1 == SetCell(SetCell(gs, f.row, f.col, NoPiece),
                    t.row, t.col, move.piece)
      kingside == t.col > f.col
      g2 == IF kingside
            THEN SetCell(SetCell(g1, t.row, 7, NoPiece), t.row, 5,
                         Pc("rook", move.piece.color))
            ELSE SetCell(SetCell(g1, t.row, 0, NoPiece), t.row, 3,
                         Pc("rook", move.piece.color))
      r  == gs.castlingRights
  IN  [gs   |-> [g2 EXCEPT !.castlingRights =
                   IF move.piece.color = "white"
                   THEN [r EXCEPT !.whiteKingside = FALSE,
                                  !.whiteQueenside = FALSE]
                   ELSE [r EXCEPT !.blackKingside = FALSE,
                                  !.blackQueenside = FALSE]],
       move |-> [move EXCEPT !.castling =
                   IF kingside THEN "kingside" ELSE "queenside"]]

executeEnPassant(gs, move) ==
  LET f  == squareToIndex(move.from)
      t  == squareToIndex(move.to)
      g1 == SetCell(SetCell(gs, f.row, f.col, NoPiece),
                    t.row, t.col, move.piece)
      capturedRow == IF move.piece.color = "white"
                     THEN t.row + 1 ELSE t.row - 1
  IN  [gs   |-> SetCell(g1, capturedRow, t.col, NoPiece),
       move |-> [move EXCEPT !.enPassant = TRUE]]

\* updateCastlingRights clearing the rights of the king only
updateCastlingRightsKingOnly(gs, move) ==
  IF move.piece.type = "king"
  THEN [gs EXCEPT !.castlingRights =
          IF move.piece.color = "white"
          THEN [@ EXCEPT !.whiteKingside = FALSE, !.whiteQueenside = FALSE]
          ELSE [@ EXCEPT !.blackKingside = FALSE, !.blackQueenside = FALSE]]
  ELSE gs

updateCastlingRights(gs, move) ==
  LET r  == gs.castlingRights
      r1 == IF move.piece.type = "king"
            THEN IF move.piece.color = "white"
                 THEN [r EXCEPT !.whiteKingside = FALSE,
                                !.whiteQueenside = FALSE]
                 ELSE [r EXCEPT !.blackKingside = FALSE,
                                !.blackQueenside = FALSE]
            ELSE r
      r2 == IF move.piece.type = "rook"
            THEN [r1 EXCEPT
                    !.whiteQueenside = @ /\ move.from # <<"a", 1>>,
                    !.whiteKingside  = @ /\ move.from # <<"h", 1>>,
                    !.blackQueenside = @ /\ move.from # <<"a", 8>>,
                    !.blackKingside  = @ /\ move.from # <<"h", 8>>]
            ELSE r1
  IN  [gs EXCEPT !.castlingRights = r2]

updateEnPassantTarget(gs, move) ==
  LET fromPos == squareToPosition(move.from)
      toPos   == squareToPosition(move.to)
  IN  IF move.piece.type = "pawn" /\ Abs(toPos.rank - fromPos.rank) = 2
      THEN [gs EXCEPT !.enPassantTarget =
              positionToSquare([file |-> fromPos.file,
                                rank |-> (fromPos.rank + toPos.rank) \div 2])]
      ELSE [gs EXCEPT !.enPassantTarget = NoSquare]

updateClocks(gs, move) ==
  LET g1 == IF move.piece.type = "pawn" \/ move.capturedPiece # NoPiece
            THEN [gs EXCEPT !.halfmoveClock = 0]
            ELSE [gs EXCEPT !.halfmoveClock = @ + 1]
  IN  IF gs.currentPlayer = "black"
      THEN [g1 EXCEPT !.fullmoveNumber = @ + 1]
      ELSE g1

executeMove(gs, move) ==
  LET f == squareToIndex(move.from)
      t == squareToIndex(move.to)
  IN  IF move.piece.type = "king" /\ Abs(f.col - t.col) = 2
      THEN executeCastling(gs, move)
      ELSE IF move.piece.type = "pawn" /\ move.to = gs.enPassantTarget
      THEN executeEnPassant(gs, move)
      ELSE LET g1 == SetCell(SetCell(gs, f.row, f.col, NoPiece),
                             t.row, t.col,
                             IF move.promotion # Undefined
                             THEN Pc(move.promotion, move.piece.color)
                             ELSE move.piece)
           IN  [gs   |-> updateClocks(
                           updateEnPassantTarget(
                             updateCastlingRights(g1, move), move), move),
                move |-> move]

\* ------------------------------------------------------------- game status
isDrawByFiftyMoveRule(gs) == gs.halfmoveClock >= 100

\* isDrawByInsufficientMaterial taking any three pieces for a draw
isDrawByInsufficientMaterialAnyThree(gs) ==
  LET cells == {k \in 0..63 : gs.board[k \div 8][k % 8] # NoPiece}
  IN  Cardinality(cells) = 2 \/ Cardinality(cells) = 3

isDrawByInsufficientMaterial(gs) ==
  LET cells    == {k \in 0..63 : gs.board[k \div 8][k % 8] # NoPiece}
      nonKings == {k \in cells : gs.board[k \div 8][k % 8].type # "king"}
  IN  IF Cardinality(cells) = 2 THEN TRUE
      ELSE IF Cardinality(cells) = 3
      THEN /\ Cardinality(nonKings) = 1
           /\ \E k \in nonKings :
                gs.board[k \div 8][k % 8].type \in {"bishop", "knight"}
      ELSE FALSE

isDrawByThreefoldRepetition(gs) ==
  LET currentFen == calculateFEN(gs)
      positions  == [i \in 1..Len(gs.moves) |-> gs.moves[i].fen]
                      \o <<currentFen>>
  IN  \E i \in 1..Len(positions) :
        Cardinality({j \in 1..Len(positions) :
                       positions[j] = positions[i]}) >= 3

\* updateGameStatus calling a position without legal moves stalemate
\* whether or not the king is in check
setStatusNoCheck(gs, inCheck, hasLegal) ==
  [gs EXCEPT !.isCheck     = inCheck,
             !.isCheckmate = inCheck /\ ~hasLegal,
             !.isStalemate = ~hasLegal,
             !.isDraw      = \/ ~inCheck /\ ~hasLegal
                             \/ isDrawByFiftyMoveRule(gs)
                             \/ isDrawByInsufficientMaterial(gs)
                             \/ isDrawByThreefoldRepetition(gs)]

\* the four assignments of updateGameStatus
setStatus(gs, inCheck, hasLegal) ==
  [gs EXCEPT !.isCheck     = inCheck,
             !.isCheckmate = inCheck /\ ~hasLegal,
             !.isStalemate = ~inCheck /\ ~hasLegal,
             !.isDraw      = \/ ~inCheck /\ ~hasLegal
                             \/ isDrawByFiftyMoveRule(gs)
                             \/ isDrawByInsufficientMaterial(gs)
                             \/ isDrawByThreefoldRepetition(gs)]

statusFrom(inCheck, h) == setStatus(h.gs, inCheck, h.result)

updateGameStatus(gs) ==
  statusFrom(isInCheck(gs, gs.currentPlayer),
             hasLegalMoves(gs, gs.currentPlayer))

\* ------------------------------------------------------------------- SAN
\* piece.type.charAt(0).toUpperCase()
initial(type) ==
  CASE type = "king"   -> "K"
    [] type = "queen"  -> "Q"
    [] type = "rook"   -> "R"
    [] type = "bishop" -> "B"
    [] type = "knight" -> "K"
    [] type = "pawn"   -> "P"

calculateSAN(gs, move) ==
  IF move.castling # Undefined
  THEN IF move.castling = "kingside" THEN <<"O-O">> ELSE <<"O-O-O">>
  ELSE (IF move.piece.type # "pawn"
        THEN <<initial(move.piece.type)>> ELSE <<>>)
       \o (IF move.capturedPiece # NoPiece
           THEN (IF move.piece.type = "pawn"
                 THEN <<move.from[1]>> ELSE <<>>) \o <<"x">>
           ELSE <<>>)
       \o <<move.to[1], DigitChars[move.to[2]]>>
       \o (IF move.promotion # Undefined
           THEN <<"=", initial(move.promotion)>> ELSE <<>>)
       \o (IF isInCheck(gs, Other(move.piece.color))
           THEN IF gs.isCheckmate THEN <<"#">> ELSE <<"+">>
           ELSE <<>>)

\* -------------------------------------------------------------- makeMove
\* newMove storing a FEN whose active colour is the mover's opponent
newMoveFlipped(gs, from, to, promotion) ==
  [from          |-> from,
   to            |-> to,
   piece         |-> getPiece(gs, from),
   capturedPiece |-> getPiece(gs, to),
   promotion     |-> promotion,
   castling      |-> Undefined,
   enPassant     |-> FALSE,
   san           |-> <<>>,
   fen           |-> [calculateFEN(gs) EXCEPT
                        !.active = IF @ = "w" THEN "b" ELSE "w"]]

\* the Move object makeMove creates
newMove(gs, from, to, promotion) ==
  [from          |-> from,
   to            |-> to,
   piece         |-> getPiece(gs, from),
   capturedPiece |-> getPiece(gs, to),
   promotion     |-> promotion,
   castling      |-> Undefined,
   enPassant     |-> FALSE,
   san           |-> <<>>,
   fen           |-> calculateFEN(gs)]

\* makeMove from "Update game state" on, with the SAN already computed
recordMove(gs, move) ==
  [gs       |-> updateGameStatus(
                  [gs EXCEPT !.moves = Append(@, move),
                             !.fen = calculateFEN(gs),
                             !.currentPlayer = Other(gs.currentPlayer)]),
   returned |-> move]

\* makeMove from "Calculate SAN" on
finishMove(e) ==
  recordMove(e.gs, [e.move EXCEPT !.san = calculateSAN(e.gs, e.move)])

\* makeMove after the validity test
makeValid(v, from, to, promotion) ==
  IF ~v.valid
  THEN [gs |-> v.gs, returned |-> NoMove]
  ELSE finishMove(executeMove(v.gs, newMove(v.gs, from, to, promotion)))

\* isValidMove begins with getPiece(from), whose exception nothing catches
makeMove(gs, from, to, promotion) ==
  IF throws(from)
  THEN [gs |-> gs, returned |-> TypeError]
  ELSE makeValid(isValidMove(gs, from, to, promotion), from, to, promotion)

\* ------------------------------------------------ positions to start from
\* rnbqkbnr/pppppppp/8/8/8/8/PPPPPPPP/RNBQKBNR w KQkq - 0 1
standardFen ==
  [placement |-> <<<<"r", "n", "b", "q", "k", "b", "n", "r">>,
                  <<"p", "p", "p", "p", "p", "p", "p", "p">>,
                  <<"8">>,
                  <<"8">>,
                  <<"8">>,
                  <<"8">>,
                  <<"P", "P", "P", "P", "P", "P", "P", "P">>,
                  <<"R", "N", "B", "Q", "K", "B", "N", "R">>>>,
   active    |-> "w",
   castling  |-> <<"K", "Q", "k", "q">>,
   ep        |-> Dash,
   half      |-> <<"0">>,
   full      |-> <<"1">>]

\* 4k2r/7p/8/8/4P3/8/3P3P/4K2R b Kk e3 0 20
CastlingFen ==
  [placement |-> <<<<"4", "k", "2", "r">>,
                  <<"7", "p">>,
                  <<"8">>,
                  <<"8">>,
                  <<"4", "P", "3">>,
                  <<"8">>,
                  <<"3", "P", "3", "P">>,
                  <<"4", "K", "2", "R">>>>,
   active    |-> "b",
   castling  |-> <<"K", "k">>,
   ep        |-> <<"e", 3>>,
   half      |-> <<"0">>,
   full      |-> <<"2", "0">>]

\* 4k3/2pp4/8/4P3/8/8/8/4K3 b - - 0 30
EnPassantFen ==
  [placement |-> <<<<"4", "k", "3">>,
                  <<"2", "p", "p", "4">>,
                  <<"8">>,
                  <<"4", "P", "3">>,
                  <<"8">>,
                  <<"8">>,
                  <<"8">>,
                  <<"4", "K", "3">>>>,
   active    |-> "b",
   castling  |-> Dash,
   ep        |-> Dash,
   half      |-> <<"0">>,
   full      |-> <<"3", "0">>]

\* 4k3/8/8/8/8/8/6bP/4K2R b K - 0 40
CornerFen ==
  [placement |-> <<<<"4", "k", "3">>,
                  <<"8">>,
                  <<"8">>,
                  <<"8">>,
                  <<"8">>,
                  <<"8">>,
                  <<"6", "b", "P">>,
                  <<"4", "K", "2", "R">>>>,
   active    |-> "b",
   castling  |-> <<"K">>,
   ep        |-> Dash,
   half      |-> <<"0">>,
   full      |-> <<"4", "0">>]

\* 8/P3k3/8/8/8/8/8/4K3 w - - 0 50
PromotionFen ==
  [placement |-> <<<<"8">>,
                  <<"P", "3", "k", "3">>,
                  <<"8">>,
                  <<"8">>,
                  <<"8">>,
                  <<"8">>,
                  <<"8">>,
                  <<"4", "K", "3">>>>,
   active    |-> "w",
   castling  |-> Dash,
   ep        |-> Dash,
   half      |-> <<"0">>,
   full      |-> <<"5", "0">>]

\* 4k2r/7p/7P/8/8/8/8/4K3 b k - 98 60
FiftyFen ==
  [placement |-> <<<<"4", "k", "2", "r">>,
                  <<"7", "p">>,
                  <<"7", "P">>,
                  <<"8">>,
                  <<"8">>,
                  <<"8">>,
                  <<"8">>,
                  <<"4", "K", "3">>>>,
   active    |-> "b",
   castling  |-> <<"k">>,
   ep        |-> Dash,
   half      |-> <<"9", "8">>,
   full      |-> <<"6", "0">>]

\* 4k3/2p5/8/3pP3/8/8/8/4K3 w - d6 0 31
EnPassantTargetFen ==
  [placement |-> <<<<"4", "k", "3">>,
                  <<"2", "p", "5">>,
                  <<"8">>,
                  <<"3", "p", "P", "3">>,
                  <<"8">>,
                  <<"8">>,
                  <<"8">>,
                  <<"4", "K", "3">>>>,
   active    |-> "w",
   castling  |-> Dash,
   ep        |-> <<"d", 6>>,
   half      |-> <<"0">>,
   full      |-> <<"3", "1">>]

\* a locked position in which each side has one legal move, its king
\* stepping between the corner and the square next to it
\* 5b1k/4p1p1/4P1P1/8/8/4p1p1/4P1P1/5B1K w - - 0 1
RepetitionFen ==
  [placement |-> <<<<"5", "b", "1", "k">>,
                  <<"4", "p", "1", "p", "1">>,
                  <<"4", "P", "1", "P", "1">>,
                  <<"8">>,
                  <<"8">>,
                  <<"4", "p", "1", "p", "1">>,
                  <<"4", "P", "1", "P", "1">>,
                  <<"5", "B", "1", "K">>>>,
   active    |-> "w",
   castling  |-> Dash,
   ep        |-> Dash,
   half      |-> <<"0">>,
   full      |-> <<"1">>]

\* the same position one halfmove short of the fifty-move rule
\* 5b1k/4p1p1/4P1P1/8/8/4p1p1/4P1P1/5B1K w - - 99 80
DrawFen ==
  [placement |-> <<<<"5", "b", "1", "k">>,
                  <<"4", "p", "1", "p", "1">>,
                  <<"4", "P", "1", "P", "1">>,
                  <<"8">>,
                  <<"8">>,
                  <<"4", "p", "1", "p", "1">>,
                  <<"4", "P", "1", "P", "1">>,
                  <<"5", "B", "1", "K">>>>,
   active    |-> "w",
   castling  |-> Dash,
   ep        |-> Dash,
   half      |-> <<"9", "9">>,
   full      |-> <<"8", "0">>]

\* the standard start after f2f3, e7e5, g2g4
\* rnbqkbnr/pppp1ppp/8/4p3/6P1/5P2/PPPPP2P/RNBQKBNR b KQkq g3 0 2
FoolsMateFen ==
  [placement |-> <<<<"r", "n", "b", "q", "k", "b", "n", "r">>,
                  <<"p", "p", "p", "p", "1", "p", "p", "p">>,
                  <<"8">>,
                  <<"4", "p", "3">>,
                  <<"6", "P", "1">>,
                  <<"5", "P", "2">>,
                  <<"P", "P", "P", "P", "P", "2", "P">>,
                  <<"R", "N", "B", "Q", "K", "B", "N", "R">>>>,
   active    |-> "b",
   castling  |-> <<"K", "Q", "k", "q">>,
   ep        |-> <<"g", 3>>,
   half      |-> <<"0">>,
   full      |-> <<"2">>]

\* a1a8 mates with the hundredth quiet halfmove
\* 6k1/5ppp/8/8/8/8/8/R3K3 w Q - 99 70
MateDrawFen ==
  [placement |-> <<<<"6", "k", "1">>,
                  <<"5", "p", "p", "p">>,
                  <<"8">>,
                  <<"8">>,
                  <<"8">>,
                  <<"8">>,
                  <<"8">>,
                  <<"R", "3", "K", "3">>>>,
   active    |-> "w",
   castling  |-> <<"Q">>,
   ep        |-> Dash,
   half      |-> <<"9", "9">>,
   full      |-> <<"7", "0">>]

\* g5g6 stalemates
\* 7k/5K2/8/6Q1/8/8/8/8 w - - 0 90
StalemateFen ==
  [placement |-> <<<<"7", "k">>,
                  <<"5", "K", "2">>,
                  <<"8">>,
                  <<"6", "Q", "1">>,
                  <<"8">>,
                  <<"8">>,
                  <<"8">>,
                  <<"8">>>>,
   active    |-> "w",
   castling  |-> Dash,
   ep        |-> Dash,
   half      |-> <<"0">>,
   full      |-> <<"9", "0">>]

\* both white castlings at hand, a black rook to attack the squares crossed
\* 4k3/8/8/8/8/8/1r6/R3K2R b KQ - 0 95
GatingFen ==
  [placement |-> <<<<"4", "k", "3">>,
                  <<"8">>,
                  <<"8">>,
                  <<"8">>,
                  <<"8">>,
                  <<"8">>,
                  <<"1", "r", "6">>,
                  <<"R", "3", "K", "2", "R">>>>,
   active    |-> "b",
   castling  |-> <<"K", "Q">>,
   ep        |-> Dash,
   half      |-> <<"0">>,
   full      |-> <<"9", "5">>]

\* a placement whose seventh row describes 7 files only
\* 4k3/8/8/8/8/8/7/4K3 w - - 0 1
ShortRankFen ==
  [placement |-> <<<<"4", "k", "3">>,
                  <<"8">>,
                  <<"8">>,
                  <<"8">>,
                  <<"8">>,
                  <<"8">>,
                  <<"7">>,
                  <<"4", "K", "3">>>>,
   active    |-> "w",
   castling  |-> Dash,
   ep        |-> Dash,
   half      |-> <<"0">>,
   full      |-> <<"1">>]

\* a halfmove clock that is no number
\* 4k3/8/8/8/8/8/8/4K3 w - - x 1
NaNClockFen ==
  [placement |-> <<<<"4", "k", "3">>,
                  <<"8">>,
                  <<"8">>,
                  <<"8">>,
                  <<"8">>,
                  <<"8">>,
                  <<"8">>,
                  <<"4", "K", "3">>>>,
   active    |-> "w",
   castling  |-> Dash,
   ep        |-> Dash,
   half      |-> <<"x">>,
   full      |-> <<"1">>]

\* pawns of both colours that promote by a push or by a capture
\* 1n2k3/P7/8/8/8/8/7p/4K1N1 w - - 0 60
PromotionCaptureFen ==
  [placement |-> <<<<"1", "n", "2", "k", "3">>,
                  <<"P", "7">>,
                  <<"8">>,
                  <<"8">>,
                  <<"8">>,
                  <<"8">>,
                  <<"7", "p">>,
                  <<"4", "K", "1", "N", "1">>>>,
   active    |-> "w",
   castling  |-> Dash,
   ep        |-> Dash,
   half      |-> <<"0">>,
   full      |-> <<"6", "0">>]

\* black, in check from the h1 rook, has one legal move: the bishop takes
\* the rook on its corner
\* 6rk/1b4p1/8/8/8/8/8/4K2R b K - 0 40
CornerCaptureFen ==
  [placement |-> <<<<"6", "r", "k">>,
                  <<"1", "b", "4", "p", "1">>,
                  <<"8">>,
                  <<"8">>,
                  <<"8">>,
                  <<"8">>,
                  <<"8">>,
                  <<"4", "K", "2", "R">>>>,
   active    |-> "b",
   castling  |-> <<"K">>,
   ep        |-> Dash,
   half      |-> <<"0">>,
   full      |-> <<"4", "0">>]

InitialFens ==
  {standardFen, CastlingFen, EnPassantFen, EnPassantTargetFen, CornerFen,
   PromotionFen, FiftyFen, RepetitionFen, DrawFen, FoolsMateFen, MateDrawFen,
   StalemateFen, GatingFen, ShortRankFen, NaNClockFen, PromotionCaptureFen,
   CornerCaptureFen}

\* the FEN the engine was constructed from: stored by the first move made,
\* and the current position while no move has been made
InitialFen(gs) ==
  IF gs.moves = <<>> THEN calculateFEN(gs) ELSE gs.moves[1].fen

\* the positions explored to the depth StartPly
StartPlyFens ==
  {standardFen, FoolsMateFen, MateDrawFen, StalemateFen, GatingFen, CornerFen,
   PromotionCaptureFen}

\* exploration depth: plies played since construction; arithmetic on a
\* clock that is NaN is not modelled, no move is made on such an engine
PlyLimit(gs) ==
  IF isNaN(gs.halfmoveClock) THEN 0
  ELSE IF InitialFen(gs) \in StartPlyFens
  THEN StartPly
  ELSE IF InitialFen(gs) = RepetitionFen THEN RepeatPly ELSE MaxPly

\* the last call was undoMove or goToMoveIndex
Navigated == returned = Void \/ "undone" \in DOMAIN returned

\* play and queries go on while the depth allows and the game has not been
\* navigated; undoMove and goToMoveIndex are called during play
CanCall == ~Navigated /\ Len(gameState.moves) < PlyLimit(gameState)

\* ----------------------------------------------------- undo and navigation
getCurrentPlayer(gs) == gs.currentPlayer

\* getFen writing the castling letters of Black before those of White
getFenBlackFirst(gs) ==
  LET r == gs.castlingRights
      castling == (IF r.blackKingside  THEN <<"k">> ELSE <<>>) \o
                  (IF r.blackQueenside THEN <<"q">> ELSE <<>>) \o
                  (IF r.whiteKingside  THEN <<"K">> ELSE <<>>) \o
                  (IF r.whiteQueenside THEN <<"Q">> ELSE <<>>)
  IN  [placement |-> [i \in 1..8 |-> rowToFen(gs.board[i - 1], 0, 0, <<>>)],
       active    |-> IF gs.currentPlayer = "white" THEN "w" ELSE "b",
       castling  |-> IF castling = <<>> THEN Dash ELSE castling,
       ep        |-> IF gs.enPassantTarget = NoSquare THEN Dash
                     ELSE gs.enPassantTarget,
       half      |-> toString(gs.halfmoveClock),
       full      |-> toString(gs.fullmoveNumber)]

\* getFen builds the same text as calculateFEN, with its own copy of the loop
getFen(gs) ==
  LET r == gs.castlingRights
      castling == (IF r.whiteKingside  THEN <<"K">> ELSE <<>>) \o
                  (IF r.whiteQueenside THEN <<"Q">> ELSE <<>>) \o
                  (IF r.blackKingside  THEN <<"k">> ELSE <<>>) \o
                  (IF r.blackQueenside THEN <<"q">> ELSE <<>>)
  IN  [placement |-> [i \in 1..8 |-> rowToFen(gs.board[i - 1], 0, 0, <<>>)],
       active    |-> IF gs.currentPlayer = "white" THEN "w" ELSE "b",
       castling  |-> IF castling = <<>> THEN Dash ELSE castling,
       ep        |-> IF gs.enPassantTarget = NoSquare THEN Dash
                     ELSE gs.enPassantTarget,
       half      |-> toString(gs.halfmoveClock),
       full      |-> toString(gs.fullmoveNumber)]

\* undoMove restoring the whole history, the undone move included
undoMoveKeepLast(gs) ==
  IF Len(gs.moves) = 0 THEN [gs |-> gs, returned |-> NoMove]
  ELSE LET lastMove == gs.moves[Len(gs.moves)]
       IN  [gs       |-> [initializeGame(lastMove.fen) EXCEPT
                            !.moves = gs.moves,
                            !.currentPlayer = lastMove.piece.color],
            returned |-> lastMove]

undoMove(gs) ==
  IF Len(gs.moves) = 0 THEN [gs |-> gs, returned |-> NoMove]
  ELSE LET lastMove == gs.moves[Len(gs.moves)]
       IN  [gs       |-> [initializeGame(lastMove.fen) EXCEPT
                            !.moves = SubSeq(gs.moves, 1, Len(gs.moves) - 1),
                            !.currentPlayer = lastMove.piece.color],
            returned |-> lastMove]

isGameOver(gs) == gs.isCheckmate \/ gs.isDraw

\* getGameResult asking for a draw before it asks for checkmate
getGameResultDrawFirst(gs) ==
  IF gs.isDraw THEN "draw"
  ELSE IF gs.isCheckmate
  THEN IF gs.currentPlayer = "white" THEN "black-wins" ELSE "white-wins"
  ELSE "*"

getGameResult(gs) ==
  IF gs.isCheckmate
  THEN IF gs.currentPlayer = "white" THEN "black-wins" ELSE "white-wins"
  ELSE IF gs.isDraw THEN "draw" ELSE "*"

\* initializeGame() without an argument uses standardFen
resetToInitialPosition(gs) ==
  [initializeGame(standardFen) EXCEPT !.moves = gs.moves]

\* the board after replayMove's castling / en passant / normal branch
replayBoard(gs, move, piece) ==
  LET f  == squareToIndex(move.from)
      t  == squareToIndex(move.to)
      g1 == SetCell(SetCell(gs, f.row, f.col, NoPiece), t.row, t.col, piece)
  IN  IF move.castling = "kingside"
      THEN SetCell(SetCell(g1, f.row, 7, NoPiece), f.row, 5,
                   Pc("rook", piece.color))
      ELSE IF move.castling = "queenside"
      THEN SetCell(SetCell(g1, f.row, 0, NoPiece), f.row, 3,
                   Pc("rook", piece.color))
      ELSE IF move.enPassant
      THEN SetCell(g1, IF piece.color = "white" THEN t.row + 1
                       ELSE t.row - 1, t.col, NoPiece)
      ELSE g1

\* replayMove from "Handle promotion" on; currentPlayer receives the FEN's
\* second field as it is written ('w' or 'b')
replayState(gs, move, piece) ==
  LET t  == squareToIndex(move.to)
      g2 == IF move.promotion # Undefined
            THEN SetCell(gs, t.row, t.col, Pc(move.promotion, piece.color))
            ELSE gs
  IN  [g2 EXCEPT !.currentPlayer   = move.fen.active,
                 !.enPassantTarget = fenToEnPassantTarget(move.fen),
                 !.castlingRights  = fenToCastlingRights(move.fen)]

replayMove(gs, move) ==
  IF getPiece(gs, move.from) = NoPiece THEN gs
  ELSE replayState(replayBoard(gs, move, getPiece(gs, move.from)), move,
                   getPiece(gs, move.from))

RECURSIVE replayTo(_, _, _)
\* the loop of goToMoveIndex, i = 0 .. moveIndex
replayTo(gs, i, moveIndex) ==
  IF i > moveIndex THEN gs
  ELSE replayTo(replayMove(gs, gs.moves[i + 1]), i + 1, moveIndex)

goToMoveIndex(gs, moveIndex) ==
  IF moveIndex < -1 \/ moveIndex >= Len(gs.moves) THEN gs
  ELSE replayTo(resetToInitialPosition(gs), 0, moveIndex)

\* ---------------------------------------------------------------- actions
\* The state is the engine's gameState and how the last makeMove call
\* ended: the Move it returned, NoMove for null, TypeError for an exception.
Init ==
  /\ \E fen \in InitialFens : gameState = initializeGame(fen)
  /\ returned = NotCalled
  /\ room = Undefined
  /\ rooms = {}
  /\ playerRooms = {}

\* promotion arguments tried: none, a promotion piece, and a piece no
\* pawn promotes to
PromotionArgs == {Undefined, "queen", "king"}

\* strings that name no square of the board: a file that does not exist,
\* a rank above the board
OffBoard == {<<"z", 1>>, <<"e", 9>>}

\* squares a request names as its origin: every occupied square and the
\* first empty one (the handlers return at once on an empty origin)
FromSquares ==
  LET empty == {sq \in Squares : getPiece(gameState, sq) = NoPiece}
      first == CHOOSE sq \in empty :
                 \A o \in empty :
                   LET i == squareToIndex(sq)
                       j == squareToIndex(o)
                   IN  8 * i.row + i.col <= 8 * j.row + j.col
  IN  (Squares \ empty) \cup {first}

\* getLegalMoves(from) where the call returns
Candidates(from) ==
  IF throws(from) THEN <<>> ELSE getLegalMoves(gameState, from).moves

\* (to, promotion) pairs tried from a square with each promotion argument:
\* the first legal destination if there is one, and the square itself
Probes(legal, from) ==
  {<<to, p>> : to \in {legal[i].to : i \in 1..Len(legal)
                                      \cap {1}} \cup {from},
               p \in PromotionArgs}

\* requests tried from a square: every legal candidate and the probes
Requests(legal, from) ==
  {<<legal[i].to, legal[i].promotion>> : i \in 1..Len(legal)}
    \cup Probes(legal, from)

Result(r) ==
  /\ gameState' = r.gs
  /\ returned' = r.returned
  /\ UNCHANGED server

MakeMove(from, to, promotion) ==
  /\ CanCall
  /\ Result(makeMove(gameState, from, to, promotion))

\* the queries return a value and leave the engine as the call left it
GetLegalMoves(square) ==
  /\ CanCall
  /\ gameState' = IF throws(square) THEN gameState
                  ELSE getLegalMoves(gameState, square).gs
  /\ UNCHANGED returned
  /\ UNCHANGED server

IsValidMove(from, to, promotion) ==
  /\ CanCall
  /\ gameState' = IF throws(from) THEN gameState
                  ELSE isValidMove(gameState, from, to, promotion).gs
  /\ UNCHANGED returned
  /\ UNCHANGED server

GetAllLegalMoves ==
  /\ CanCall
  /\ gameState' = getAllLegalMoves(gameState).gs
  /\ UNCHANGED returned
  /\ UNCHANGED server

\* isInCheck only reads the board
IsInCheck(color) ==
  /\ CanCall
  /\ isInCheck(gameState, color) \in BOOLEAN
  /\ UNCHANGED <<gameState, returned>>
  /\ UNCHANGED server

UndoMove ==
  /\ CanCall
  /\ gameState' = undoMove(gameState).gs
  /\ returned' = Undone(undoMove(gameState).returned)
  /\ UNCHANGED server

\* indices tried: every move of the history, -1, and one beyond either end
GoToMoveIndex(moveIndex) ==
  /\ CanCall
  /\ gameState' = goToMoveIndex(gameState, moveIndex)
  /\ returned' = Void
  /\ UNCHANGED server

\* the getters only read the state
GetFen ==
  /\ CanCall
  /\ getFen(gameState).active \in {"w", "b"}
  /\ UNCHANGED <<gameState, returned>>
  /\ UNCHANGED server

GetGameResult ==
  /\ CanCall
  /\ isGameOver(gameState) <=> getGameResult(gameState) # "*"
  /\ UNCHANGED <<gameState, returned>>
  /\ UNCHANGED server

Next ==
  \/ /\ CanCall
     /\ \E from \in FromSquares \cup OffBoard :
          \E req \in Requests(Candidates(from), from) :
            MakeMove(from, req[1], req[2])
  \/ /\ CanCall
     /\ \E square \in FromSquares \cup OffBoard : GetLegalMoves(square)
  \/ /\ CanCall
     /\ \E from \in FromSquares \cup OffBoard :
          \E req \in Probes(Candidates(from), from) :
            IsValidMove(from, req[1], req[2])
  \/ GetAllLegalMoves
  \/ \E color \in {"white", "black"} : IsInCheck(color)
  \/ UndoMove
  \/ \E moveIndex \in -2..Len(gameState.moves) : GoToMoveIndex(moveIndex)
  \/ GetFen
  \/ GetGameResult

Spec == Init /\ [][Next]_vars

\* ================================================================ server
\* GameRoom.ts and GameManager.ts. The manager holds one room, RoomId; the
\* room's ChessEngine is gameState. A player is its id and colour, an offer
\* the id it is from; names, sockets, isConnected, the spectators and the
\* timestamps are carried along but never read by the room's or the
\* manager's decisions.
RoomId == "R"

\* socket ids of the clients: two who come to play and one who only watches
PlayerIds == {"H", "B", "S"}

Joiners == {"H", "B"}

\* the id createRoom gives the host until they join
Placeholder == ""

Player(id, color) == [id |-> id, color |-> color]

\* the result object of a room or manager call
Res(success, message, gameResult) ==
  [success |-> success, message |-> message, gameResult |-> gameResult]

Ok == Res(TRUE, Undefined, Undefined)

Fail(message) == Res(FALSE, message, Undefined)

\* a room call's outcome: the room, its engine and the result
Out(r, gs, result) == [room |-> r, gs |-> gs, returned |-> result]

\* Map.set: the entry under the key is added or replaced
MapSet(map, key, value) ==
  [k \in DOMAIN map \cup {key} |-> IF k = key THEN value ELSE map[k]]

\* Map.delete
MapDelete(map, key) == [k \in DOMAIN map \ {key} |-> map[k]]

\* new GameRoom(id, hostPlayer, settings): the host is white and is stored
\* under the id it has at that moment
GameRoom(hostPlayer) ==
  [players     |-> MapSet(<<>>, hostPlayer.id,
                          [hostPlayer EXCEPT !.color = "white"]),
   status      |-> "waiting",
   drawOffer   |-> Undefined,
   undoRequest |-> Undefined]

addPlayer(r, gs, playerId) ==
  IF Cardinality(DOMAIN r.players) >= 2
  THEN Out(r, gs, Fail("Room is full"))
  ELSE IF playerId \in DOMAIN r.players
  THEN Out(r, gs, Fail("Player already in room"))
  ELSE LET players == MapSet(r.players, playerId,
                             Player(playerId, "black"))
       IN  Out([r EXCEPT !.players = players,
                         !.status  = IF Cardinality(DOMAIN players) = 2
                                     THEN "active" ELSE @],
               gs, Ok)

removePlayer(r, gs, playerId) ==
  IF playerId \notin DOMAIN r.players
  THEN Out(r, gs, Fail(Undefined))
  ELSE Out([r EXCEPT !.players = MapDelete(@, playerId),
                     !.status  = IF @ = "active" THEN "finished" ELSE @],
           gs, Ok)

\* Map.get finding nothing
NoPlayer == [found |-> FALSE]

getPlayer(r, playerId) ==
  IF playerId \in DOMAIN r.players THEN r.players[playerId] ELSE NoPlayer

\* GameRoom.makeMove after a move that leaves the pending offers alone
roomMovedKeepOffers(r, gs, made) ==
  IF made.returned = TypeError THEN Out(r, gs, TypeError)
  ELSE IF made.returned = NoMove
  THEN Out(r, made.gs, Fail("Invalid move"))
  ELSE Out([r EXCEPT !.status = IF isGameOver(made.gs)
                                THEN "finished" ELSE @],
           made.gs,
           Res(TRUE, Undefined,
               IF isGameOver(made.gs) THEN getGameResult(made.gs)
               ELSE Undefined))

\* GameRoom.makeMove with the engine's outcome made handed in
roomMoved(r, gs, made) ==
  IF made.returned = TypeError THEN Out(r, gs, TypeError)
  ELSE IF made.returned = NoMove
  THEN Out(r, made.gs, Fail("Invalid move"))
  ELSE Out([r EXCEPT !.drawOffer   = Undefined,
                     !.undoRequest = Undefined,
                     !.status      = IF isGameOver(made.gs)
                                     THEN "finished" ELSE @],
           made.gs,
           Res(TRUE, Undefined,
               IF isGameOver(made.gs) THEN getGameResult(made.gs)
               ELSE Undefined))

\* GameRoom.makeMove without the comparison of colours
roomMakeMoveAnyTurn(r, gs, playerId, move) ==
  IF getPlayer(r, playerId) = NoPlayer
  THEN Out(r, gs, Fail("Player not found"))
  ELSE IF r.status # "active"
  THEN Out(r, gs, Fail("Game is not active"))
  ELSE roomMoved(r, gs, makeMove(gs, move[1], move[2], move[3]))

roomMakeMove(r, gs, playerId, move) ==
  IF getPlayer(r, playerId) = NoPlayer
  THEN Out(r, gs, Fail("Player not found"))
  ELSE IF r.status # "active"
  THEN Out(r, gs, Fail("Game is not active"))
  ELSE IF gs.currentPlayer # getPlayer(r, playerId).color
  THEN Out(r, gs, Fail("Not your turn"))
  ELSE roomMoved(r, gs, makeMove(gs, move[1], move[2], move[3]))

offerDraw(r, gs, playerId) ==
  IF getPlayer(r, playerId) = NoPlayer
  THEN Out(r, gs, Fail("Player not found"))
  ELSE IF r.status # "active"
  THEN Out(r, gs, Fail("Game is not active"))
  ELSE IF r.drawOffer # Undefined /\ r.drawOffer = playerId
  THEN Out(r, gs, Fail("Draw already offered"))
  ELSE Out([r EXCEPT !.drawOffer = playerId], gs, Ok)

respondToDrawOffer(r, gs, playerId, accept) ==
  IF r.drawOffer = Undefined
  THEN Out(r, gs, Fail("No draw offer pending"))
  ELSE IF r.drawOffer = playerId
  THEN Out(r, gs, Fail("Cannot respond to your own offer"))
  ELSE IF accept
  THEN Out([r EXCEPT !.status = "finished", !.drawOffer = Undefined],
           gs, Res(TRUE, Undefined, "draw"))
  ELSE Out([r EXCEPT !.drawOffer = Undefined], gs, Ok)

resign(r, gs, playerId) ==
  IF getPlayer(r, playerId) = NoPlayer
  THEN Out(r, gs, Fail("Player not found"))
  ELSE IF r.status # "active"
  THEN Out(r, gs, Fail("Game is not active"))
  ELSE Out([r EXCEPT !.status = "finished"], gs,
           Res(TRUE, Undefined,
               IF getPlayer(r, playerId).color = "white"
               THEN "black-wins" ELSE "white-wins"))

requestUndo(r, gs, playerId) ==
  IF getPlayer(r, playerId) = NoPlayer
  THEN Out(r, gs, Fail("Player not found"))
  ELSE IF r.status # "active"
  THEN Out(r, gs, Fail("Game is not active"))
  ELSE IF Len(gs.moves) = 0
  THEN Out(r, gs, Fail("No moves to undo"))
  ELSE IF r.undoRequest # Undefined /\ r.undoRequest = playerId
  THEN Out(r, gs, Fail("Undo already requested"))
  ELSE Out([r EXCEPT !.undoRequest = playerId], gs, Ok)

respondToUndoRequest(r, gs, playerId, accept) ==
  IF r.undoRequest = Undefined
  THEN Out(r, gs, Fail("No undo request pending"))
  ELSE IF r.undoRequest = playerId
  THEN Out(r, gs, Fail("Cannot respond to your own request"))
  ELSE IF accept
  THEN IF IsMove(undoMove(gs).returned)
       THEN Out([r EXCEPT !.undoRequest = Undefined], undoMove(gs).gs, Ok)
       ELSE Out(r, undoMove(gs).gs, Fail("Failed to undo move"))
  ELSE Out([r EXCEPT !.undoRequest = Undefined], gs, Ok)

\* only the player's socket and isConnected are assigned
reconnectPlayer(r, gs, playerId) ==
  IF getPlayer(r, playerId) = NoPlayer
  THEN Out(r, gs, Fail("Player not found in room"))
  ELSE Out(r, gs, Ok)

isEmpty(r) == DOMAIN r.players = {}

\* ------------------------------------------------------------ GameManager
\* GameManager.createRoom: the host is a placeholder with the id ''
createRoom == GameRoom(Player(Placeholder, "white"))

\* the manager's methods look the room up and hand the call on
found(registered, r, gs, out) ==
  IF RoomId \notin registered THEN Out(r, gs, Fail("Room not found"))
  ELSE out

\* the only key of a map with one entry
onlyKey(map) == CHOOSE k \in DOMAIN map : TRUE

\* joinRoom's first branch: the one player there has the id '' and is given
\* the caller's id, under the key it was stored with
isHostJoining(r) ==
  /\ Cardinality(DOMAIN r.players) = 1
  /\ r.players[onlyKey(r.players)].id = Placeholder

hostJoined(r, playerId) ==
  [r EXCEPT !.players[onlyKey(r.players)] =
              [@ EXCEPT !.id = playerId]]

\* a manager call's outcome: the room, the two maps and the result
Managed(r, registered, mapped, result) ==
  [room |-> r, rooms |-> registered, playerRooms |-> mapped,
   returned |-> result]

joinRoom(r, registered, mapped, playerId) ==
  IF RoomId \notin registered
  THEN Managed(r, registered, mapped, Fail("Room not found"))
  ELSE IF isHostJoining(r)
  THEN Managed(hostJoined(r, playerId), registered,
               mapped \cup {playerId}, Ok)
  ELSE LET out == addPlayer(r, Undefined, playerId)
       IN  Managed(out.room, registered,
                   IF out.returned.success THEN mapped \cup {playerId}
                   ELSE mapped,
                   out.returned)

\* the result of removePlayer is not looked at
leaveRoom(r, registered, mapped, playerId) ==
  IF playerId \notin mapped
  THEN Managed(r, registered, mapped, Fail(Undefined))
  ELSE IF RoomId \notin registered
  THEN Managed(r, registered, mapped, Ok)
  ELSE LET left == removePlayer(r, Undefined, playerId).room
       IN  Managed(left,
                   IF isEmpty(left) THEN registered \ {RoomId}
                   ELSE registered,
                   mapped \ {playerId}, Ok)

\* ---------------------------------------------------------------- actions
\* the moves the clients submit: the four of the fool's mate, and one from
\* a square off the board
RoomMoves ==
  {<<<<"f", 2>>, <<"f", 3>>, Undefined>>,
   <<<<"e", 7>>, <<"e", 5>>, Undefined>>,
   <<<<"g", 2>>, <<"g", 4>>, Undefined>>,
   <<<<"d", 8>>, <<"h", 4>>, Undefined>>,
   <<<<"e", 9>>, <<"e", 5>>, Undefined>>}

\* a room made by GameManager.createRoom, or one constructed with a host
\* that has an id already and is not known to a manager
RoomInit ==
  /\ \/ room = createRoom /\ rooms = {RoomId}
     \/ room = GameRoom(Player("H", "white")) /\ rooms = {}
  /\ gameState = initializeGame(standardFen)
  /\ playerRooms = {}
  /\ returned = NotCalled

\* the outcome of a call on the room
Call(out) ==
  /\ room' = out.room
  /\ gameState' = out.gs
  /\ returned' = out.returned
  /\ UNCHANGED <<rooms, playerRooms>>

JoinRoom(playerId) ==
  LET out == joinRoom(room, rooms, playerRooms, playerId)
  IN  /\ room' = out.room
      /\ playerRooms' = out.playerRooms
      /\ returned' = out.returned
      /\ UNCHANGED <<gameState, rooms>>

LeaveRoom(playerId) ==
  LET out == leaveRoom(room, rooms, playerRooms, playerId)
  IN  /\ room' = out.room
      /\ rooms' = out.rooms
      /\ playerRooms' = out.playerRooms
      /\ returned' = out.returned
      /\ UNCHANGED gameState

AddPlayer(playerId) == Call(addPlayer(room, gameState, playerId))

RemovePlayer(playerId) == Call(removePlayer(room, gameState, playerId))

\* socket.on('make-move'): GameManager.makeMove
MakeMoveEvent(playerId, move) ==
  Call(found(rooms, room, gameState,
             roomMakeMove(room, gameState, playerId, move)))

RoomMakeMove(playerId, move) ==
  Call(roomMakeMove(room, gameState, playerId, move))

OfferDraw(playerId) ==
  \/ Call(offerDraw(room, gameState, playerId))
  \/ Call(found(rooms, room, gameState,
                offerDraw(room, gameState, playerId)))

RespondToDrawOffer(playerId, accept) ==
  \/ Call(respondToDrawOffer(room, gameState, playerId, accept))
  \/ Call(found(rooms, room, gameState,
                respondToDrawOffer(room, gameState, playerId, accept)))

Resign(playerId) ==
  \/ Call(resign(room, gameState, playerId))
  \/ Call(found(rooms, room, gameState, resign(room, gameState, playerId)))

RequestUndo(playerId) ==
  \/ Call(requestUndo(room, gameState, playerId))
  \/ Call(found(rooms, room, gameState,
                requestUndo(room, gameState, playerId)))

RespondToUndoRequest(playerId, accept) ==
  \/ Call(respondToUndoRequest(room, gameState, playerId, accept))
  \/ Call(found(rooms, room, gameState,
                respondToUndoRequest(room, gameState, playerId, accept)))

\* GameManager.reconnectPlayer
ReconnectPlayer(playerId) ==
  LET out == found(rooms, room, gameState,
                   reconnectPlayer(room, gameState, playerId))
  IN  /\ room' = out.room
      /\ returned' = out.returned
      /\ playerRooms' = IF out.returned.success
                        THEN playerRooms \cup {playerId} ELSE playerRooms
      /\ UNCHANGED <<gameState, rooms>>

RoomNext ==
  \/ \E playerId \in Joiners : JoinRoom(playerId)
  \/ \E playerId \in PlayerIds : LeaveRoom(playerId)
  \/ \E playerId \in Joiners : AddPlayer(playerId)
  \/ \E playerId \in PlayerIds : RemovePlayer(playerId)
  \/ \E playerId \in PlayerIds, move \in RoomMoves :
       MakeMoveEvent(playerId, move)
  \/ \E playerId \in PlayerIds, move \in RoomMoves :
       RoomMakeMove(playerId, move)
  \/ \E playerId \in PlayerIds : OfferDraw(playerId)
  \/ \E playerId \in PlayerIds, accept \in BOOLEAN :
       RespondToDrawOffer(playerId, accept)
  \/ \E playerId \in PlayerIds : Resign(playerId)
  \/ \E playerId \in PlayerIds : RequestUndo(playerId)
  \/ \E playerId \in PlayerIds, accept \in BOOLEAN :
       RespondToUndoRequest(playerId, accept)
  \/ \E playerId \in PlayerIds : ReconnectPlayer(playerId)

RoomSpec == RoomInit /\ [][RoomNext]_vars

\* ================================================================= claims
\* a step in which makeMove succeeded: one Move more in the history
Accepted == Len(gameState'.moves) = Len(gameState.moves) + 1

\* the Move a successful step appended
Made == gameState'.moves[Len(gameState'.moves)]

Cells(gs, color) ==
  {k \in 0..63 : gs.board[k \div 8][k % 8] # NoPiece
                 /\ gs.board[k \div 8][k % 8].color = color}

\* some king of the colour stands on a square an opposing piece attacks
KingAttacked(gs, color) ==
  \E sq \in Squares :
     /\ getPiece(gs, sq) = Pc("king", color)
     /\ isSquareAttacked(gs, sq, Other(color))

DoubleStep(move) ==
  move.piece.type = "pawn" /\ Abs(move.to[2] - move.from[2]) = 2

Skipped(move) == <<move.from[1], (move.from[2] + move.to[2]) \div 2>>

\* C1: legality soundness. Every move makeMove accepts (every entry of
\* getLegalMoves, from every square, is requested) leaves a board on which
\* no king of the mover is attacked by an opposing piece; the board is the
\* one after castling's rook relocation and en passant's pawn removal.
C1_LegalitySoundness ==
  IsMove(returned)
    => ~KingAttacked(gameState, returned.piece.color)

\* an en-passant capture has been made with the mover's king on the board
\* and safe
C1_Witness ==
  /\ IsMove(returned)
  /\ returned.enPassant
  /\ returned.capturedPiece = NoPiece
  /\ findKing(gameState, returned.piece.color) # NoSquare
  /\ ~KingAttacked(gameState, returned.piece.color)

\* the request (from, to, promotion) is one the claim calls illegal
Illegal(gs, from, to, promotion) ==
  \/ getPiece(gs, from) = NoPiece
  \/ getPiece(gs, from).color # gs.currentPlayer
  \/ ~ \E i \in 1..Len(getLegalMoves(gs, from).moves) :
         /\ getLegalMoves(gs, from).moves[i].to = to
         /\ getLegalMoves(gs, from).moves[i].promotion = promotion

\* C2: an illegal request is rejected with null and no state change.
\* No makeMove call ends in an exception; a call that returns null leaves
\* the whole gameState (board, castling rights, en-passant target, clocks,
\* currentPlayer, moves, flags) as it was; and a call that succeeds was
\* asked for a legal candidate of the current player's piece with exactly
\* its promotion.
C2_IllegalRejected ==
  [][/\ returned' # TypeError
     /\ returned' = NoMove => gameState' = gameState
     /\ Accepted => ~Illegal(gameState, Made.from, Made.to, Made.promotion)
    ]_vars

QueryLeaves(gs, after) ==
  /\ after.board = gs.board
  /\ after.enPassantTarget = gs.enPassantTarget

\* C3: legality queries do not mutate the game. In every reachable state
\* getLegalMoves and isValidMove from every square, and getAllLegalMoves,
\* leave every board cell and the en-passant target as they were (isInCheck
\* assigns nothing).
C3_QueriesDoNotMutate ==
  /\ \A square \in Squares :
       QueryLeaves(gameState, getLegalMoves(gameState, square).gs)
  /\ \A from \in Squares :
       QueryLeaves(gameState,
                   isValidMove(gameState, from, from, Undefined).gs)
  /\ QueryLeaves(gameState, getAllLegalMoves(gameState).gs)

\* a pawn has just made its double-step and the player to move has a legal
\* en-passant capture, which the queries simulated (pawn moved, enemy pawn
\* removed) and took back
C3_Witness ==
  /\ IsMove(returned)
  /\ DoubleStep(returned)
  /\ gameState.enPassantTarget = Skipped(returned)
  /\ getPiece(gameState, gameState.enPassantTarget) = NoPiece
  /\ \E i \in 1..Len(getAllLegalMoves(gameState).moves) :
       LET m == getAllLegalMoves(gameState).moves[i]
       IN  /\ getPiece(gameState, m.from).type = "pawn"
           /\ m.to = gameState.enPassantTarget
           /\ getPiece(gameState, <<m.to[1], m.from[2]>>)
                = Pc("pawn", Other(gameState.currentPlayer))
  /\ QueryLeaves(gameState, getAllLegalMoves(gameState).gs)

\* the castling right that goes with a rook's origin square
RightOf(sq) ==
  CASE sq = <<"a", 1>> -> "whiteQueenside"
    [] sq = <<"h", 1>> -> "whiteKingside"
    [] sq = <<"a", 8>> -> "blackQueenside"
    [] sq = <<"h", 8>> -> "blackKingside"

Corners == {<<"a", 1>>, <<"h", 1>>, <<"a", 8>>, <<"h", 8>>}

CornerColor(sq) == IF sq[2] = 1 THEN "white" ELSE "black"

\* C4: a castling right is false once the rook has been captured on its
\* origin square: after a successful makeMove in which an enemy piece
\* captures on a1, h1, a8 or h8 while the corresponding right was true,
\* that right is false.
C4_RookCapturedClearsRight ==
  [][(/\ Accepted
      /\ Made.to \in Corners
      /\ Made.piece.color # CornerColor(Made.to)
      /\ getPiece(gameState, Made.to) # NoPiece
      /\ gameState.castlingRights[RightOf(Made.to)])
     => ~gameState'.castlingRights[RightOf(Made.to)]
    ]_vars

Rights == {"whiteKingside", "whiteQueenside", "blackKingside", "blackQueenside"}

RightsOfColor(color) ==
  IF color = "white" THEN {"whiteKingside", "whiteQueenside"}
  ELSE {"blackKingside", "blackQueenside"}

\* C5: castling rights are monotone under play. Across every successful
\* makeMove a right that is false stays false; after a move of a king both
\* rights of its colour are false, and after a move of a rook from a corner
\* of its own back rank the right of that corner is false.
C5_CastlingRightsMonotone ==
  [][Accepted =>
       /\ \A r \in Rights :
            ~gameState.castlingRights[r] => ~gameState'.castlingRights[r]
       /\ Made.piece.type = "king" =>
            \A r \in RightsOfColor(Made.piece.color) :
              ~gameState'.castlingRights[r]
       /\ (/\ Made.piece.type = "rook"
           /\ Made.from \in Corners
           /\ CornerColor(Made.from) = Made.piece.color) =>
            ~gameState'.castlingRights[RightOf(Made.from)]
    ]_vars

\* a rook has left its corner while the right of that corner was still
\* held, and the right is gone
C5_Witness ==
  /\ IsMove(returned)
  /\ returned.piece.type = "rook"
  /\ returned.from \in Corners
  /\ CornerColor(returned.from) = returned.piece.color
  /\ fenToCastlingRights(returned.fen)[RightOf(returned.from)]
  /\ ~gameState.castlingRights[RightOf(returned.from)]

\* C6: en-passant target lifetime: after every successful makeMove the
\* target is the square skipped over if the move was a pawn double-step,
\* and null otherwise.
C6_EnPassantTargetLifetime ==
  [][Accepted =>
       gameState'.enPassantTarget =
         IF DoubleStep(Made) THEN Skipped(Made) ELSE NoSquare
    ]_vars

\* the move made just before was a pawn's double-step past the square (for
\* a game constructed from a FEN, before its first move: the FEN names the
\* square as its en-passant target)
JustSkipped(gs, sq) ==
  IF gs.moves = <<>> THEN gs.enPassantTarget = sq
  ELSE /\ DoubleStep(gs.moves[Len(gs.moves)])
       /\ Skipped(gs.moves[Len(gs.moves)]) = sq

\* C7: en-passant window: a pawn's diagonal move onto an empty square is
\* accepted only on the move immediately following the opposing pawn's
\* double-step past that square, and it removes that pawn.
C7_EnPassantWindow ==
  [][(/\ Accepted
      /\ Made.piece.type = "pawn"
      /\ Made.from[1] # Made.to[1]
      /\ getPiece(gameState, Made.to) = NoPiece)
     => /\ JustSkipped(gameState, Made.to)
        /\ getPiece(gameState, <<Made.to[1], Made.from[2]>>)
             = Pc("pawn", Other(Made.piece.color))
        /\ getPiece(gameState', <<Made.to[1], Made.from[2]>>) = NoPiece
    ]_vars

\* C8: halfmove clock rule: after every successful makeMove the clock is 0
\* if a pawn moved or an enemy piece left the board, and one more than
\* before otherwise (castling included).
C8_HalfmoveClock ==
  [][Accepted =>
       gameState'.halfmoveClock =
         IF \/ Made.piece.type = "pawn"
            \/ Cells(gameState', Other(Made.piece.color))
                 # Cells(gameState, Other(Made.piece.color))
         THEN 0
         ELSE gameState.halfmoveClock + 1
    ]_vars

\* C9: fullmove number rule: a successful makeMove by Black adds one to
\* fullmoveNumber, one by White leaves it.
C9_FullmoveNumber ==
  [][Accepted =>
       gameState'.fullmoveNumber =
         gameState.fullmoveNumber
           + (IF Made.piece.color = "black" THEN 1 ELSE 0)
    ]_vars

Quiet(move) == move.piece.type # "pawn" /\ move.capturedPiece = NoPiece

RECURSIVE QuietRun(_, _)
\* the number of consecutive halfmoves up to move i, none a pawn move or a
\* capture; it continues the count the initial FEN carries in its halfmove
\* clock
QuietRun(moves, i) ==
  IF i = 0 THEN parseInt(moves[1].fen.half)
  ELSE IF Quiet(moves[i]) THEN 1 + QuietRun(moves, i - 1) ELSE 0

\* C10: fifty-move draw: after 100 consecutive successful halfmoves none
\* of which is a pawn move or a capture (castling counts), isDraw is true.
C10_FiftyMoveDraw ==
  (~Navigated
   /\ gameState.moves # <<>>
   /\ QuietRun(gameState.moves, Len(gameState.moves)) >= 100)
    => gameState.isDraw

\* the player to move has no legal move from any square
NoLegalMove(gs) ==
  \A sq \in Squares : getLegalMoves(gs, sq).moves = <<>>

\* C11: status flags after a move. After every successful makeMove, with P
\* the player now to move: isCheck iff P's king stands on a square the
\* opponent attacks, isCheckmate iff isCheck and P has no legal move,
\* isStalemate iff not isCheck and P has no legal move; never both
\* isCheckmate and isStalemate; isStalemate implies isDraw.
C11_StatusFlags ==
  [][Accepted =>
       /\ gameState'.isCheck
            <=> KingAttacked(gameState', gameState'.currentPlayer)
       /\ gameState'.isCheckmate
            <=> (gameState'.isCheck /\ NoLegalMove(gameState'))
       /\ gameState'.isStalemate
            <=> (~gameState'.isCheck /\ NoLegalMove(gameState'))
       /\ ~(gameState'.isCheckmate /\ gameState'.isStalemate)
       /\ gameState'.isStalemate => gameState'.isDraw
    ]_vars

\* a move has left the player to move without a legal move and not in
\* check: stalemate, and a draw
C11_Witness ==
  /\ IsMove(returned)
  /\ returned = gameState.moves[Len(gameState.moves)]
  /\ NoLegalMove(gameState)
  /\ ~KingAttacked(gameState, gameState.currentPlayer)
  /\ gameState.isStalemate
  /\ gameState.isDraw
  /\ ~gameState.isCheck

\* the game is over: checkmate, stalemate or a draw
Terminal(gs) == gs.isCheckmate \/ gs.isStalemate \/ gs.isDraw

Flags(gs) == <<gs.isCheck, gs.isCheckmate, gs.isStalemate, gs.isDraw>>

\* C12: terminal states are absorbing. Once isCheckmate, isStalemate or
\* isDraw is true, no makeMove, undoMove or goToMoveIndex call changes the
\* board, the move list or the status flags.
C12_TerminalAbsorbing ==
  [][Terminal(gameState) =>
       /\ gameState'.board = gameState.board
       /\ gameState'.moves = gameState.moves
       /\ Flags(gameState') = Flags(gameState)
    ]_vars

\* C13: checkmate detection and result. Whenever a successful makeMove
\* leaves the opponent's king attacked and the opponent without a legal
\* move, isCheckmate and isGameOver() are true, getAllLegalMoves() is empty
\* and getGameResult() names the mover as winner, draw condition or not.
C13_CheckmateResult ==
  [][(/\ Accepted
      /\ KingAttacked(gameState', gameState'.currentPlayer)
      /\ NoLegalMove(gameState'))
     => /\ gameState'.isCheckmate
        /\ isGameOver(gameState')
        /\ getAllLegalMoves(gameState').moves = <<>>
        /\ getGameResult(gameState')
             = IF Made.piece.color = "white" THEN "white-wins"
               ELSE "black-wins"
    ]_vars

\* fool's mate has been played: d8h4 after f2f3, e7e5, g2g4
C13_Witness ==
  /\ IsMove(returned)
  /\ returned.fen = FoolsMateFen
  /\ returned.from = <<"d", 8>>
  /\ returned.to = <<"h", 4>>
  /\ KingAttacked(gameState, "white")
  /\ NoLegalMove(gameState)
  /\ gameState.isCheckmate
  /\ getGameResult(gameState) = "black-wins"

\* what identifies a position: piece placement, side to move, castling
\* rights and en-passant target
Position(fen) == <<fen.placement, fen.active, fen.castling, fen.ep>>

\* the earlier occurrences of the current position in the game: the
\* positions the moves of the history were made from
Earlier(gs) ==
  {j \in 1..Len(gs.moves) :
     Position(gs.moves[j].fen) = Position(calculateFEN(gs))}

\* C14: threefold repetition is a draw. When a successful makeMove brings
\* about a position for the third time in the game, isDraw is true.
C14_ThreefoldRepetition ==
  [][(Accepted /\ Cardinality(Earlier(gameState')) >= 2)
       => gameState'.isDraw
    ]_vars

\* the last call was a makeMove that succeeded: it returned the last Move
\* of the history
JustMade ==
  /\ IsMove(returned)
  /\ gameState.moves # <<>>
  /\ returned = gameState.moves[Len(gameState.moves)]

RECURSIVE undoAll(_)
\* undoMove called once for every move of the history
undoAll(gs) == IF gs.moves = <<>> THEN gs ELSE undoAll(undoMove(gs).gs)

C16_NavigationDisplayOnly ==
  [][returned' = Void =>
       /\ getFen(gameState') = getFen(gameState)
       /\ getCurrentPlayer(gameState') = getCurrentPlayer(gameState)
       /\ \A sq \in Squares :
            getLegalMoves(gameState', sq).moves
              = getLegalMoves(gameState, sq).moves
       /\ gameState'.moves = gameState.moves
    ]_vars

\* the piece placement that existed right after move n + 1 of the history
\* was executed: the one the next move was made from, or the current one
PlacementAfter(gs, n) ==
  IF n = Len(gs.moves) - 1 THEN calculateFEN(gs).placement
  ELSE gs.moves[n + 2].fen.placement

\* C17: replay fidelity. In a game played with makeMove from the initial
\* FEN F, goToMoveIndex(n) shows for 0 <= n < k the placement that existed
\* right after move n + 1 was executed, and goToMoveIndex(-1) shows the
\* placement of F.
C17_ReplayFidelity ==
  ~Navigated =>
    \A n \in -1..(Len(gameState.moves) - 1) :
      getFen(goToMoveIndex(gameState, n)).placement
        = IF n = -1 THEN InitialFen(gameState).placement
          ELSE PlacementAfter(gameState, n)

PieceChars == LowerChars \cup {toUpperCase(char) : char \in LowerChars}

RECURSIVE rowWidth(_, _)
\* the number of files the characters of a rank from position i on describe
rowWidth(chars, i) ==
  IF i > Len(chars) THEN 0
  ELSE (IF chars[i] \in DigitSet THEN digitValue(chars[i]) ELSE 1)
         + rowWidth(chars, i + 1)

\* a rank of a FEN placement: piece letters and counts of empty files, a
\* run of empty files counted once, 8 files in all
WellFormedRank(chars) ==
  /\ \A i \in 1..Len(chars) : chars[i] \in PieceChars \cup DigitSet
  /\ \A i \in 1..(Len(chars) - 1) :
       ~(chars[i] \in DigitSet /\ chars[i + 1] \in DigitSet)
  /\ rowWidth(chars, 1) = 8

\* a decimal number written without sign and without leading zeros
CanonicalDecimal(str) ==
  /\ Len(str) >= 1
  /\ \A i \in 1..Len(str) : str[i] \in DecimalSet
  /\ Len(str) = 1 \/ str[1] # "0"

\* the castling field: "-" or some of the letters KQkq in that order
CastlingOrder(str) ==
  \/ str = Dash
  \/ /\ str # <<>>
     /\ str = (IF includes(str, "K") THEN <<"K">> ELSE <<>>) \o
              (IF includes(str, "Q") THEN <<"Q">> ELSE <<>>) \o
              (IF includes(str, "k") THEN <<"k">> ELSE <<>>) \o
              (IF includes(str, "q") THEN <<"q">> ELSE <<>>)

WellFormed(fen) ==
  /\ Len(fen.placement) = 8
  /\ \A i \in 1..8 : WellFormedRank(fen.placement[i])
  /\ fen.active \in {"w", "b"}
  /\ CastlingOrder(fen.castling)
  /\ fen.ep = Dash \/ fen.ep \in Squares
  /\ CanonicalDecimal(fen.half)
  /\ CanonicalDecimal(fen.full)

\* an engine on which nothing but the constructor (and queries) has run
Fresh == returned = NotCalled /\ gameState.moves = <<>>

\* the FEN texts at hand in a state: the one the engine was constructed
\* from or stored last, those stored with the moves, and the one getFen
\* returns now
FensSeen ==
  {gameState.fen, getFen(gameState)}
    \cup {gameState.moves[i].fen : i \in 1..Len(gameState.moves)}

\* C18: FEN round trip. For every well-formed six-field FEN x (8 ranks of
\* 8 files, castling letters in KQkq order, canonical decimal clocks), the
\* engine constructed from x returns exactly x from getFen().
C18_FenRoundTrip ==
  /\ (Fresh /\ WellFormed(gameState.fen))
       => getFen(gameState) = gameState.fen
  /\ \A x \in FensSeen :
       WellFormed(x) => getFen(initializeGame(x)) = x

\* an engine just constructed from a well-formed FEN with castling letters
\* and clocks of two digits, returning that FEN
C18_Witness ==
  /\ Fresh
  /\ WellFormed(gameState.fen)
  /\ gameState.fen.castling # Dash
  /\ Len(gameState.fen.half) = 2
  /\ Len(gameState.fen.full) = 2
  /\ getFen(gameState) = gameState.fen

\* the placement field describes exactly 8 ranks of exactly 8 files each
Describes8x8(fen) ==
  /\ Len(fen.placement) = 8
  /\ \A i \in 1..8 :
       /\ \A j \in 1..Len(fen.placement[i]) :
            fen.placement[i][j] \in PieceChars \cup DigitSet
       /\ rowWidth(fen.placement[i], 1) = 8

Numeric(str) ==
  /\ Len(str) >= 1
  /\ \A i \in 1..Len(str) : str[i] \in DecimalSet

\* C19: malformed FEN is rejected at construction. No engine instance
\* exists that was constructed from a FEN whose placement does not describe
\* 8 ranks of 8 files or whose clocks are not numeric, and none holds a
\* clock that is NaN.
C19_MalformedFenRejected ==
  Fresh =>
    /\ Describes8x8(gameState.fen)
    /\ Numeric(gameState.fen.half)
    /\ Numeric(gameState.fen.full)
    /\ ~isNaN(gameState.halfmoveClock)
    /\ ~isNaN(gameState.fullmoveNumber)

CastlingSides == {"kingside", "queenside"}

BackRank(color) == IF color = "white" THEN 1 ELSE 8

\* the king's origin square, its castling destination and the rook's origin
KingHome(color) == <<"e", BackRank(color)>>

CastlingDestination(color, side) ==
  <<IF side = "kingside" THEN "g" ELSE "c", BackRank(color)>>

RookHome(color, side) ==
  <<IF side = "kingside" THEN "h" ELSE "a", BackRank(color)>>

Within(squares) == {squares[i] : i \in 1..Len(squares)}

\* the conditions of castling for a king on its origin square: the right is
\* true, every square between king and rook is empty, the king is not in
\* check, and the square it crosses and its destination are not attacked
CastlingAllowed(gs, color, side) ==
  /\ gs.castlingRights[RightOf(RookHome(color, side))]
  /\ \A sq \in Within(getSquaresBetween(KingHome(color),
                                         RookHome(color, side))) :
       getPiece(gs, sq) = NoPiece
  /\ ~isSquareAttacked(gs, KingHome(color), Other(color))
  /\ \A sq \in Within(getSquaresBetween(KingHome(color),
                          CastlingDestination(color, side)))
               \cup {CastlingDestination(color, side)} :
       ~isSquareAttacked(gs, sq, Other(color))

Destinations(moves) == {moves[i].to : i \in 1..Len(moves)}

LegalDestinations(gs, square) == Destinations(getLegalMoves(gs, square).moves)

\* the gating of both sides for a king on its origin square, given the
\* destinations of its legal moves
GatingAtHome(gs, color, king, destinations) ==
  \A side \in CastlingSides :
    /\ CastlingDestination(color, side) \in destinations
         <=> CastlingAllowed(gs, color, side)
    /\ IsMove(makeMove(gs, king, CastlingDestination(color, side),
                       Undefined).returned)
         <=> CastlingDestination(color, side) \in destinations

GatingHolds(gs, color, king) ==
  IF king = NoSquare THEN TRUE
  ELSE IF king = KingHome(color)
       THEN GatingAtHome(gs, color, king, LegalDestinations(gs, king))
       ELSE \A to \in LegalDestinations(gs, king) :
              Abs(squareToIndex(to).col - squareToIndex(king).col) <= 1

\* C20: castling gating. For the player to move and either side, with the
\* king on its origin square: the castling destination is among the king's
\* legal moves, and makeMove to it is accepted, if and only if the right is
\* true, the squares between king and rook are empty, the king is not in
\* check and neither the crossed square nor the destination is attacked.
\* A king standing elsewhere is offered no move of two files.
C20_CastlingGating ==
  ~Navigated =>
    GatingHolds(gameState, gameState.currentPlayer,
                findKing(gameState, gameState.currentPlayer))

\* White to move with the king on e1: castling queenside is allowed and c1
\* is among the king's legal moves, castling kingside is offered no more
\* because f1 is attacked, though the right is true and f1, g1 are empty
C20_Witness ==
  /\ ~Navigated
  /\ gameState.currentPlayer = "white"
  /\ findKing(gameState, "white") = KingHome("white")
  /\ CastlingAllowed(gameState, "white", "queenside")
  /\ <<"c", 1>> \in LegalDestinations(gameState, <<"e", 1>>)
  /\ gameState.castlingRights.whiteKingside
  /\ getPiece(gameState, <<"f", 1>>) = NoPiece
  /\ getPiece(gameState, <<"g", 1>>) = NoPiece
  /\ isSquareAttacked(gameState, <<"f", 1>>, "black")
  /\ <<"g", 1>> \notin LegalDestinations(gameState, <<"e", 1>>)

RECURSIVE perft(_, _)
RECURSIVE perftOver(_, _, _, _)
\* the number of sequences of depth more moves that makeMove accepts one
\* after the other, counted over the entries moves[i..] of getAllLegalMoves
perftOver(gs, moves, i, depth) ==
  IF i > Len(moves) THEN 0
  ELSE perft(makeMove(gs, moves[i].from, moves[i].to,
                      moves[i].promotion).gs, depth - 1)
         + perftOver(gs, moves, i + 1, depth)

\* the leaf count of the recursive expansion of getAllLegalMoves
perft(gs, depth) ==
  IF depth = 0 THEN 1
  ELSE IF depth = 1 THEN Len(getAllLegalMoves(gs).moves)
  ELSE perftOver(gs, getAllLegalMoves(gs).moves, 1, depth)

\* every entry of getAllLegalMoves is accepted by makeMove, and no two
\* entries are the same request
AllAccepted(gs, moves) ==
  /\ \A i \in 1..Len(moves) :
       IsMove(makeMove(gs, moves[i].from, moves[i].to,
                       moves[i].promotion).returned)
  /\ \A i, j \in 1..Len(moves) : moves[i] = moves[j] => i = j

\* C21: perft oracle. From the standard start position the number of move
\* sequences of length 1, 2 and 3 that makeMove accepts, the leaf count of
\* the recursive expansion of getAllLegalMoves, is 20, 400 and 8902.
C21_PerftOracle ==
  (Fresh /\ gameState.fen = standardFen) =>
    /\ perft(gameState, 1) = 20
    /\ perft(gameState, 2) = 400
    /\ perft(gameState, 3) = 8902
    /\ AllAccepted(gameState, getAllLegalMoves(gameState).moves)

\* one of the 20 sequences of length 1 from the standard start has been
\* played, and 20 replies are on offer
C21_Witness ==
  /\ JustMade
  /\ Len(gameState.moves) = 1
  /\ gameState.moves[1].fen = standardFen
  /\ perft(gameState, 1) = 20

\* the last character of a SAN text
Suffix(san) == san[Len(san)]

\* the colour's king is attacked and the colour has no legal move
Checkmated(gs, color) ==
  /\ KingAttacked(gs, color)
  /\ gs.currentPlayer = color
  /\ NoLegalMove(gs)

\* C22: SAN check suffix. For every move makeMove returns, san ends with
\* '#' iff the move leaves the opponent checkmated, with '+' iff it leaves
\* the opponent in check but not checkmated, and with neither otherwise.
C22_SanCheckSuffix ==
  [][Accepted =>
       /\ Suffix(Made.san) = "#"
            <=> Checkmated(gameState', Other(Made.piece.color))
       /\ Suffix(Made.san) = "+"
            <=> (/\ KingAttacked(gameState', Other(Made.piece.color))
                 /\ ~Checkmated(gameState', Other(Made.piece.color)))
    ]_vars

\* the cells from which the step removed a piece of the mover's opponent
RemovedCells ==
  Cells(gameState, Other(Made.piece.color))
    \ Cells(gameState', Other(Made.piece.color))

\* C23: captures are recorded. For every move makeMove returns that removes
\* an enemy piece from the board, an en-passant capture included, the Move
\* carries capturedPiece equal to the removed piece and its san contains
\* 'x', preceded by the origin file for a pawn; for a move that removes
\* nothing capturedPiece is absent and san contains no 'x'.
C23_CapturesRecorded ==
  [][Accepted =>
       IF RemovedCells # {}
       THEN /\ \A k \in RemovedCells :
                 Made.capturedPiece = gameState.board[k \div 8][k % 8]
            /\ includes(Made.san, "x")
            /\ Made.piece.type = "pawn" =>
                 (Made.san[1] = Made.from[1] /\ Made.san[2] = "x")
       ELSE /\ Made.capturedPiece = NoPiece
            /\ ~includes(Made.san, "x")
    ]_vars

FarthestRank(color) == IF color = "white" THEN 8 ELSE 1

PromotionSet == {PromotionTypes[i] : i \in 1..4}

\* the pawns of the player to move that stand one step from the farthest rank
PromotingPawns(gs) ==
  {sq \in Squares :
     /\ getPiece(gs, sq) = Pc("pawn", gs.currentPlayer)
     /\ sq[2] = FarthestRank(gs.currentPlayer)
                  - (IF gs.currentPlayer = "white" THEN 1 ELSE -1)}

\* a promoting pawn's destinations: each is offered as exactly the four
\* variants, accepted with each of the four pieces, which then stands on
\* the destination with the origin empty, and rejected with no promotion
\* or any other piece
PromotionOffered(gs, from, legal) ==
  \A to \in Destinations(legal) :
    /\ to[2] = FarthestRank(gs.currentPlayer)
    /\ {legal[i].promotion : i \in {j \in 1..Len(legal) : legal[j].to = to}}
         = PromotionSet
    /\ Cardinality({j \in 1..Len(legal) : legal[j].to = to}) = 4
    /\ \A p \in PieceTypes \cup {Undefined} :
         LET r == makeMove(gs, from, to, p)
         IN  IF p \in PromotionSet
             THEN /\ IsMove(r.returned)
                  /\ getPiece(r.gs, to) = Pc(p, gs.currentPlayer)
                  /\ getPiece(r.gs, from) = NoPiece
             ELSE /\ r.returned = NoMove
                  /\ r.gs = gs

\* C24: promotion. A pawn move (push or capture) onto the farthest rank is
\* accepted by makeMove only with promotion in {queen, rook, bishop, knight}
\* and is offered by getLegalMoves as exactly those four variants; after it
\* the destination holds a piece of the chosen type and the mover's colour
\* and the origin is empty; a move not landing a pawn on the farthest rank
\* is rejected if any promotion argument is given.
C24_Promotion ==
  /\ [](~Navigated =>
          \A from \in PromotingPawns(gameState) :
            PromotionOffered(gameState, from,
                             getLegalMoves(gameState, from).moves))
  /\ [][Accepted =>
          /\ Made.promotion # Undefined
               <=> (/\ Made.piece.type = "pawn"
                    /\ Made.to[2] = FarthestRank(Made.piece.color))
          /\ Made.promotion # Undefined =>
               /\ Made.promotion \in PromotionSet
               /\ getPiece(gameState', Made.to)
                    = Pc(Made.promotion, Made.piece.color)
               /\ getPiece(gameState', Made.from) = NoPiece
       ]_vars

\* a white pawn has just captured onto its farthest rank and a knight of
\* its colour stands there
C24_Witness ==
  /\ JustMade
  /\ returned.piece = Pc("pawn", "white")
  /\ returned.capturedPiece # NoPiece
  /\ returned.promotion = "knight"
  /\ getPiece(gameState, returned.to) = Pc("knight", "white")
  /\ getPiece(gameState, returned.from) = NoPiece

\* the pieces on the board, as cell and piece
PiecesOn(gs) ==
  {<<k, gs.board[k \div 8][k % 8]>> :
     k \in {j \in 0..63 : gs.board[j \div 8][j % 8] # NoPiece}}

\* 2 pieces in total, or 3 of which the single non-king piece is a bishop
\* or a knight
InsufficientMaterial(gs) ==
  \/ Cardinality(PiecesOn(gs)) = 2
  \/ /\ Cardinality(PiecesOn(gs)) = 3
     /\ Cardinality({p \in PiecesOn(gs) : p[2].type # "king"}) = 1
     /\ \A p \in PiecesOn(gs) :
          p[2].type \in {"king", "bishop", "knight"}

\* some position (placement, side to move, castling, en passant) has
\* occurred three times in the game
Repeated(gs) ==
  LET positions == [i \in 1..Len(gs.moves) |-> Position(gs.moves[i].fen)]
                     \o <<Position(calculateFEN(gs))>>
  IN  \E i \in 1..Len(positions) :
        Cardinality({j \in 1..Len(positions) :
                       positions[j] = positions[i]}) >= 3

\* C25: insufficient material. After every successful makeMove the
\* insufficient-material draw condition holds exactly when the board holds
\* 2 pieces in total, or 3 of which the single non-king piece is a bishop
\* or a knight, and isDraw is then true; with any other material isDraw is
\* true only if stalemate, halfmoveClock >= 100 or repetition holds.
C25_InsufficientMaterial ==
  [][Accepted =>
       /\ isDrawByInsufficientMaterial(gameState')
            <=> InsufficientMaterial(gameState')
       /\ InsufficientMaterial(gameState') => gameState'.isDraw
       /\ (~InsufficientMaterial(gameState') /\ gameState'.isDraw)
            => \/ gameState'.isStalemate
               \/ gameState'.halfmoveClock >= 100
               \/ Repeated(gameState')
    ]_vars

\* a move has just left king and bishop against king, and isDraw is true
\* with neither stalemate nor the fifty-move rule nor a repetition
C25_Witness ==
  /\ JustMade
  /\ Cardinality(PiecesOn(gameState)) = 3
  /\ \E p \in PiecesOn(gameState) : p[2].type = "bishop"
  /\ gameState.isDraw
  /\ ~gameState.isStalemate
  /\ gameState.halfmoveClock < 100
  /\ ~Repeated(gameState)

\* the number of kings of a colour on the board
Kings(gs, color) ==
  Cardinality({p \in PiecesOn(gs) : p[2] = Pc("king", color)})

C28_FenFieldCurrent ==
  (JustMade \/ ("undone" \in DOMAIN returned /\ IsMove(returned.undone))) =>
    /\ gameState.fen = getFen(gameState)
    /\ gameState.fen.active = "w" <=> gameState.currentPlayer = "white"

\* the number of pieces of a colour, and of its rooks, on the board
Material(gs, color) ==
  Cardinality({p \in PiecesOn(gs) : p[2].color = color})

Rooks(gs, color) ==
  Cardinality({p \in PiecesOn(gs) : p[2] = Pc("rook", color)})

\* C29: material never grows. Across every successful makeMove the number
\* of pieces of each colour does not increase, the number of rooks of a
\* colour increases only by a promotion to rook, and castling places a rook
\* on f1/d1/f8/d8 only if that colour's rook stood on the corresponding
\* corner.
C29_MaterialNeverGrows ==
  [][Accepted =>
       /\ \A color \in {"white", "black"} :
            /\ Material(gameState', color) <= Material(gameState, color)
            /\ Rooks(gameState', color) > Rooks(gameState, color)
                 => (Made.promotion = "rook" /\ Made.piece.color = color)
       /\ Made.castling # Undefined =>
            getPiece(gameState,
                     RookHome(Made.piece.color, Made.castling))
              = Pc("rook", Made.piece.color)
    ]_vars

\* the player to move after move n + 1 of the history, n >= 0
PlayerAfter(gs, n) == Other(gs.moves[n + 1].piece.color)

\* C30: side-to-move is always a colour. In every state reached by
\* makeMove, undoMove and goToMoveIndex currentPlayer is 'white' or 'black',
\* and goToMoveIndex(n) with n >= 0 leaves the player to move after move
\* n + 1 as currentPlayer, for whose pieces getLegalMoves then answers as
\* it does for the side to move.
C30_SideToMoveIsColour ==
  /\ gameState.currentPlayer \in {"white", "black"}
  /\ ~Navigated =>
       \A n \in 0..(Len(gameState.moves) - 1) :
         LET gone == goToMoveIndex(gameState, n)
         IN  /\ gone.currentPlayer = PlayerAfter(gameState, n)
             /\ \A square \in {sq \in Squares :
                                 /\ getPiece(gone, sq) # NoPiece
                                 /\ getPiece(gone, sq).color
                                      = PlayerAfter(gameState, n)} :
                  getLegalMoves(gone, square).moves
                    = getLegalMoves(
                        [gone EXCEPT !.currentPlayer =
                                       PlayerAfter(gameState, n)],
                        square).moves

\* the position is a draw: stalemate, fifty moves, insufficient material
\* or repetition
DrawnPosition(gs) ==
  \/ ~KingAttacked(gs, gs.currentPlayer) /\ NoLegalMove(gs)
  \/ ~isNaN(gs.halfmoveClock) /\ gs.halfmoveClock >= 100
  \/ InsufficientMaterial(gs)
  \/ Repeated(gs)

\* the engine was constructed and nothing called, or undoMove has just
\* taken a move back
ConstructedOrUndone ==
  \/ Fresh
  \/ "undone" \in DOMAIN returned /\ IsMove(returned.undone)

\* C31: status flags stay consistent with the position after every
\* operation. After constructing the engine from a FEN and after undoMove,
\* isCheck equals isInCheck(currentPlayer), isCheckmate is true iff the
\* side to move is in check with no legal move, and isGameOver() is true
\* iff the position is a checkmate or a draw.
C31_StatusAfterEveryOperation ==
  ConstructedOrUndone =>
    /\ gameState.isCheck <=> isInCheck(gameState, gameState.currentPlayer)
    /\ gameState.isCheckmate
         <=> (KingAttacked(gameState, gameState.currentPlayer)
              /\ NoLegalMove(gameState))
    /\ isGameOver(gameState)
         <=> \/ KingAttacked(gameState, gameState.currentPlayer)
                  /\ NoLegalMove(gameState)
             \/ DrawnPosition(gameState)

\* ---------------------------------------------------------- server claims
\* the call returned a result object that reports success
Succeeded(result) == "success" \in DOMAIN result /\ result.success

\* the colours the client with this socket id plays in the room
ColoursOf(r, id) ==
  {r.players[k].color : k \in {j \in DOMAIN r.players : r.players[j].id = id}}

\* what a make-move event of the client does: GameManager.makeMove when the
\* manager knows the room, GameRoom.makeMove on the room itself otherwise
Submission(r, gs, id, move) ==
  IF RoomId \in rooms
  THEN found(rooms, r, gs, roomMakeMove(r, gs, id, move))
  ELSE roomMakeMove(r, gs, id, move)

\* C32: room turn enforcement under racing submissions. The handlers run
\* one at a time, so a race is an order of submissions. In an active room
\* a submission succeeds only for a player whose colour is the engine's
\* currentPlayer; a submission by a player of the other colour returns
\* 'Not your turn' and leaves the room and the engine as they were; and
\* after a successful submission no second submission of the same player
\* succeeds before the opponent has moved.
C32_TurnEnforcement ==
  room.status = "active" =>
    \A id \in PlayerIds, move \in RoomMoves :
      LET out == Submission(room, gameState, id, move)
      IN  /\ Succeeded(out.returned)
               => gameState.currentPlayer \in ColoursOf(room, id)
          /\ (ColoursOf(room, id) # {}
               /\ gameState.currentPlayer \notin ColoursOf(room, id))
               => /\ out.returned = Fail("Not your turn")
                  /\ out.gs = gameState
                  /\ out.room = room
          /\ Succeeded(out.returned)
               => \A again \in RoomMoves :
                    ~Succeeded(Submission(out.room, out.gs, id,
                                          again).returned)

\* White has moved in an active room and submits again: 'Not your turn'
C32_Witness ==
  /\ room.status = "active"
  /\ Len(gameState.moves) = 1
  /\ Succeeded(returned)
  /\ \E id \in PlayerIds :
       /\ ColoursOf(room, id) = {"white"}
       /\ Submission(room, gameState, id,
                     <<<<"g", 2>>, <<"g", 4>>, Undefined>>).returned
            = Fail("Not your turn")

\* the clients whose player is in the room
PlayersIn(r) == {r.players[k].id : k \in DOMAIN r.players}

\* C33: the host can play. In a room made by GameManager.createRoom that
\* the host and a second player have joined, so that it is active and no
\* move is made yet, GameManager.makeMove with the host's socket id and a
\* legal White move succeeds, and leaveRoom with the host's socket id
\* removes the host from the room.
C33_HostCanPlay ==
  (RoomId \in rooms /\ room.status = "active" /\ gameState.moves = <<>>)
    => \A id \in playerRooms :
         "white" \in ColoursOf(room, id)
           => /\ Succeeded(found(rooms, room, gameState,
                                 roomMakeMove(room, gameState, id,
                                              <<<<"f", 2>>, <<"f", 3>>,
                                                Undefined>>)).returned)
              /\ id \notin PlayersIn(leaveRoom(room, rooms, playerRooms,
                                                id).room)

\* C34: distinct colours and distinct players. In every room state
\* reachable by joinRoom, addPlayer, removePlayer and leaveRoom the room
\* holds at most two players, no socket id is the id of two players, and
\* two players are one white and one black.
C34_DistinctPlayers ==
  /\ Cardinality(DOMAIN room.players) <= 2
  /\ \A k1, k2 \in DOMAIN room.players :
       room.players[k1].id = room.players[k2].id => k1 = k2
  /\ Cardinality(DOMAIN room.players) = 2
       => \A color \in {"white", "black"} :
            Cardinality({k \in DOMAIN room.players :
                           room.players[k].color = color}) = 1

\* C35: the room lifecycle is waiting -> active -> finished, and finished
\* is absorbing: the status changes only from 'waiting' to 'active' and
\* from 'active' to 'finished', so no operation on a finished room makes
\* it 'active' or 'waiting' again.
C35_FinishedAbsorbing ==
  [][\/ room'.status = room.status
     \/ room.status = "waiting" /\ room'.status = "active"
     \/ room.status = "active" /\ room'.status = "finished"
    ]_vars

\* the call failed, returned no gameResult and left the engine as it was
Refused(out, gs) ==
  /\ ~Succeeded(out.returned)
  /\ "gameResult" \in DOMAIN out.returned
       => out.returned.gameResult = Undefined
  /\ out.gs = gs

\* C36: a finished room yields no further outcome. While the status is
\* 'finished' every makeMove, offerDraw, respondToDrawOffer, resign,
\* requestUndo and respondToUndoRequest fails, returns no gameResult and
\* leaves the engine's position and move list as they were.
C36_FinishedYieldsNothing ==
  room.status = "finished" =>
    \A id \in PlayerIds :
      /\ \A move \in RoomMoves :
           Refused(roomMakeMove(room, gameState, id, move), gameState)
      /\ Refused(offerDraw(room, gameState, id), gameState)
      /\ Refused(resign(room, gameState, id), gameState)
      /\ Refused(requestUndo(room, gameState, id), gameState)
      /\ \A accept \in BOOLEAN :
           /\ Refused(respondToDrawOffer(room, gameState, id, accept),
                      gameState)
           /\ Refused(respondToUndoRequest(room, gameState, id, accept),
                      gameState)

\* the client is a player of the room, by its socket id or by the key the
\* room keeps it under
IsPlayer(r, id) == id \in PlayersIn(r) \/ id \in DOMAIN r.players

\* the call failed and left the room and the engine as they were
Untouched(out, r, gs) ==
  /\ ~Succeeded(out.returned)
  /\ out.room = r
  /\ out.gs = gs

\* C37: only the opponent can answer an offer. respondToDrawOffer and
\* respondToUndoRequest succeed only for a player of the room other than
\* the one the pending offer or request is from; a call by anyone else
\* fails and leaves the status, the pending offer and the engine as they
\* were.
C37_OnlyOpponentAnswers ==
  \A id \in PlayerIds, accept \in BOOLEAN :
    /\ ~(IsPlayer(room, id) /\ room.drawOffer # Undefined
           /\ room.drawOffer # id)
         => Untouched(respondToDrawOffer(room, gameState, id, accept),
                      room, gameState)
    /\ ~(IsPlayer(room, id) /\ room.undoRequest # Undefined
           /\ room.undoRequest # id)
         => Untouched(respondToUndoRequest(room, gameState, id, accept),
                      room, gameState)

\* no answer to an offer finds one pending
NothingPending(r, gs) ==
  \A id \in PlayerIds, accept \in BOOLEAN :
    /\ respondToDrawOffer(r, gs, id, accept).returned
         = Fail("No draw offer pending")
    /\ respondToUndoRequest(r, gs, id, accept).returned
         = Fail("No undo request pending")

\* C38: offers do not survive a move. A successful GameRoom.makeMove
\* clears the pending draw offer and the pending undo request, so that
\* every answer given right after it fails with 'No draw offer pending' /
\* 'No undo request pending'; a makeMove that fails leaves the pending
\* offers as they were.
C38_OffersClearedByMove ==
  \A id \in PlayerIds, move \in RoomMoves :
    LET out == roomMakeMove(room, gameState, id, move)
    IN  IF Succeeded(out.returned)
        THEN /\ out.room.drawOffer = Undefined
             /\ out.room.undoRequest = Undefined
             /\ NothingPending(out.room, out.gs)
        ELSE /\ out.room.drawOffer = room.drawOffer
             /\ out.room.undoRequest = room.undoRequest

\* a draw offer and an undo request are pending and a move is accepted
C38_Witness ==
  /\ room.drawOffer # Undefined
  /\ room.undoRequest # Undefined
  /\ \E id \in PlayerIds, move \in RoomMoves :
       LET out == roomMakeMove(room, gameState, id, move)
       IN  /\ Succeeded(out.returned)
           /\ out.room.drawOffer = Undefined
           /\ out.room.undoRequest = Undefined
           /\ NothingPending(out.room, out.gs)

====
